---- MODULE Spec2Model ----
(***************************************************************************)
(* zerv: the Python binding (python/zerv/__init__.py), the grammar draft   *)
(* (.dev/python_parser_draft.py) and the version engine the binding shells *)
(* out to.  The engine itself (the compiled binary) is not among the       *)
(* repository's Python sources; its operations are modelled from the       *)
(* design document and from what the Python tests state about it.          *)
(***************************************************************************)
EXTENDS Integers, Sequences, FiniteSets, TLC

VARIABLES
    zerv,      \* the engine's input: the canonical model (vars) and the schema's field order
    call,      \* the last call made through the binding, with its outcome
    text,      \* a version string handed to the grammar validators
    schema,    \* a raw schema definition handed to the engine
    branch     \* the branch name and rule list handed to the flow resolver

vars == <<zerv, call, text, schema, branch>>

(***************************************************************************)
(* Bounds of the model.                                                    *)
(***************************************************************************)
MaxAmount == 2
MaxFlags == 2

(***************************************************************************)
(* Python values as the binding sees them (typing.Any in _extend_args).    *)
(***************************************************************************)
PyNone == [t |-> "none", i |-> 0, b |-> FALSE, s |-> ""]
PyInt(n) == [t |-> "int", i |-> n, b |-> FALSE, s |-> ""]
PyBool(v) == [t |-> "bool", i |-> 0, b |-> v, s |-> ""]
PyStr(v) == [t |-> "str", i |-> 0, b |-> FALSE, s |-> v]

Digit == <<"0", "1", "2", "3", "4", "5", "6", "7", "8", "9">>

\* str(n) for a non-negative int: its decimal digits.
RECURSIVE IntToStr(_)
IntToStr(n) ==
    IF n < 10 THEN Digit[n + 1]
    ELSE IntToStr(n \div 10) \o Digit[(n % 10) + 1]

\* Python's str(value).
str(value) ==
    CASE value.t = "int" -> IntToStr(value.i)
      [] value.t = "str" -> value.s
      [] value.t = "bool" -> (IF value.b THEN "True" ELSE "False")
      [] OTHER -> "None"

\* A flag list entry: the tuple (flag, value).
Flag(flag, value) == [flag |-> flag, value |-> value]

(***************************************************************************)
(* _extend_args, and the ways a slip in it would change it.                *)
(***************************************************************************)
\* slip: `if not value: continue`, which also skips 0 and "".
RECURSIVE ExtendArgsSkipsFalsy(_, _)
ExtendArgsSkipsFalsy(args, flags) ==
    IF flags = <<>> THEN args
    ELSE LET flag == Head(flags).flag
             value == Head(flags).value
             falsy == \/ value.t = "none"
                      \/ (value.t = "bool" /\ ~value.b)
                      \/ (value.t = "int" /\ value.i = 0)
                      \/ (value.t = "str" /\ value.s = "")
         IN  IF falsy THEN ExtendArgsSkipsFalsy(args, Tail(flags))
             ELSE ExtendArgsSkipsFalsy(
                      IF value.t # "bool" THEN args \o <<flag, str(value)>>
                                          ELSE Append(args, flag),
                      Tail(flags))

\* slip: `return args` indented into the loop, so only the first flag is passed.
RECURSIVE ExtendArgsReturnsEarly(_, _)
ExtendArgsReturnsEarly(args, flags) ==
    IF flags = <<>> THEN args
    ELSE LET flag == Head(flags).flag
             value == Head(flags).value
         IN  IF value.t = "none" \/ (value.t = "bool" /\ ~value.b)
             THEN ExtendArgsReturnsEarly(args, Tail(flags))
             ELSE IF value.t # "bool" THEN args \o <<flag, str(value)>>
                                      ELSE Append(args, flag)

\* slip: the value is never appended (`isinstance(value, bool)` not negated).
RECURSIVE ExtendArgsDropsValue(_, _)
ExtendArgsDropsValue(args, flags) ==
    IF flags = <<>> THEN args
    ELSE LET flag == Head(flags).flag
             value == Head(flags).value
         IN  IF value.t = "none" \/ (value.t = "bool" /\ ~value.b)
             THEN ExtendArgsDropsValue(args, Tail(flags))
             ELSE ExtendArgsDropsValue(Append(args, flag), Tail(flags))

\* slip: every bool is skipped (`isinstance(value, bool)` in the skip test).
RECURSIVE ExtendArgsSkipsBool(_, _)
ExtendArgsSkipsBool(args, flags) ==
    IF flags = <<>> THEN args
    ELSE LET flag == Head(flags).flag
             value == Head(flags).value
         IN  IF value.t = "none" \/ value.t = "bool"
             THEN ExtendArgsSkipsBool(args, Tail(flags))
             ELSE ExtendArgsSkipsBool(args \o <<flag, str(value)>>, Tail(flags))

\* slip: `args.insert(0, ...)`, so the flags come before what was there.
RECURSIVE ExtendArgsInsertsFirst(_, _)
ExtendArgsInsertsFirst(args, flags) ==
    IF flags = <<>> THEN args
    ELSE LET flag == Head(flags).flag
             value == Head(flags).value
         IN  IF value.t = "none" \/ (value.t = "bool" /\ ~value.b)
             THEN ExtendArgsInsertsFirst(args, Tail(flags))
             ELSE ExtendArgsInsertsFirst(
                      IF value.t # "bool" THEN <<flag, str(value)>> \o args
                                          ELSE <<flag>> \o args,
                      Tail(flags))

RECURSIVE _extend_args(_, _)
_extend_args(args, flags) ==
    IF flags = <<>> THEN args
    ELSE LET flag == Head(flags).flag
             value == Head(flags).value
         IN  IF value.t = "none" \/ (value.t = "bool" /\ ~value.b)
             THEN _extend_args(args, Tail(flags))
             ELSE _extend_args(
                      IF value.t # "bool" THEN args \o <<flag, str(value)>>
                                          ELSE Append(args, flag),
                      Tail(flags))

(***************************************************************************)
(* version(): its keyword arguments and the flag each is passed as, in the *)
(* order of the source.                                                    *)
(***************************************************************************)
VersionOptions == <<
    <<"-s", "source">>,
    <<"-f", "input_format">>,
    <<"-C", "repo_path">>,
    <<"--output-format", "output_format">>,
    <<"--output-template", "output_template">>,
    <<"--output-prefix", "output_prefix">>,
    <<"--schema", "schema">>,
    <<"--schema-ron", "schema_ron">>,
    <<"--tag-version", "tag_version">>,
    <<"--distance", "distance">>,
    <<"--dirty", "dirty">>,
    <<"--no-dirty", "no_dirty">>,
    <<"--clean", "clean">>,
    <<"--bumped-branch", "bumped_branch">>,
    <<"--bumped-commit-hash", "bumped_commit_hash">>,
    <<"--bumped-timestamp", "bumped_timestamp">>,
    <<"--major", "major">>,
    <<"--minor", "minor">>,
    <<"--patch", "patch">>,
    <<"--epoch", "epoch">>,
    <<"--post", "post">>,
    <<"--dev", "dev">>,
    <<"--pre-release-label", "pre_release_label">>,
    <<"--pre-release-num", "pre_release_num">>,
    <<"--custom", "custom">>,
    <<"--core", "core">>,
    <<"--extra-core", "extra_core">>,
    <<"--build", "build">>,
    <<"--bump-major", "bump_major">>,
    <<"--bump-minor", "bump_minor">>,
    <<"--bump-patch", "bump_patch">>,
    <<"--bump-post", "bump_post">>,
    <<"--bump-dev", "bump_dev">>,
    <<"--bump-pre-release-num", "bump_pre_release_num">>,
    <<"--bump-epoch", "bump_epoch">>,
    <<"--bump-pre-release-label", "bump_pre_release_label">>,
    <<"--bump-core", "bump_core">>,
    <<"--bump-extra-core", "bump_extra_core">>,
    <<"--bump-build", "bump_build">>,
    <<"--bump-context", "bump_context">>,
    <<"--no-bump-context", "no_bump_context">> >>

VersionKwargs == {VersionOptions[i][2] : i \in 1..Len(VersionOptions)}

\* Every keyword argument of version() defaults to None.
VersionDefaults == [k \in VersionKwargs |-> PyNone]

\* slip: the template is handed on as the prefix.
VersionFlagsTemplateAsPrefix(kwargs) ==
    [i \in 1..Len(VersionOptions) |->
        Flag(IF VersionOptions[i][1] = "--output-template" THEN "--output-prefix"
             ELSE VersionOptions[i][1],
             kwargs[VersionOptions[i][2]])]

\* The `flags` list version() builds from its keyword arguments.
VersionFlags(kwargs) ==
    [i \in 1..Len(VersionOptions) |->
        Flag(VersionOptions[i][1], kwargs[VersionOptions[i][2]])]

\* The bump type literals, in the order the binding lists them.
BumpType == <<"epoch", "major", "minor", "patch",
              "pre_release_label", "pre_release_num", "post", "dev">>

\* The pre-release labels the binding names.
FlowPreReleaseLabel == <<"alpha", "beta", "rc">>

(***************************************************************************)
(* Text helpers: a character of a string, decimal parsing.                 *)
(***************************************************************************)
CharAt(s, i) == SubSeq(s, i, i)

IsDigit(c) == c \in {Digit[d] : d \in 1..10}

\* White space, as str.strip() and the payload reader see it.
IsSpace(c) == c \in {" ", "\n", "\t", "\r"}

RECURSIVE lstrip(_)
lstrip(s) ==
    IF Len(s) > 0 /\ IsSpace(CharAt(s, 1)) THEN lstrip(SubSeq(s, 2, Len(s))) ELSE s

RECURSIVE rstrip(_)
rstrip(s) ==
    IF Len(s) > 0 /\ IsSpace(CharAt(s, Len(s))) THEN rstrip(SubSeq(s, 1, Len(s) - 1))
    ELSE s

\* str.strip()
strip(s) == lstrip(rstrip(s))

DigitValue(c) == CHOOSE d \in 0..9 : Digit[d + 1] = c

AllDigits(s) == Len(s) > 0 /\ \A i \in 1..Len(s) : IsDigit(CharAt(s, i))

\* The number a string of decimal digits denotes.
RECURSIVE StrToInt(_)
StrToInt(s) ==
    IF Len(s) = 1 THEN DigitValue(s)
    ELSE StrToInt(SubSeq(s, 1, Len(s) - 1)) * 10 + DigitValue(CharAt(s, Len(s)))

(***************************************************************************)
(* CanonicalModel: every optional field is None or Some(value).            *)
(***************************************************************************)
None == <<>>
Some(x) == <<x>>
IsNone(o) == Len(o) = 0
IsSome(o) == Len(o) = 1
ValueOr(o, d) == IF Len(o) = 0 THEN d ELSE o[1]

PreRelease(label, number) == [label |-> label, number |-> number]

CanonicalModel(epoch, major, minor, patch, pre_release, post, dev) ==
    [epoch |-> epoch, major |-> major, minor |-> minor, patch |-> patch,
     pre_release |-> pre_release, post |-> post, dev |-> dev,
     distance |-> None, dirty |-> None,
     bumped_branch |-> None, bumped_commit_hash |-> None, bumped_timestamp |-> None,
     last_branch |-> None, last_commit_hash |-> None, last_timestamp |-> None,
     last_tag_version |-> None]

\* The VCS context a bump may reset.
ContextFields == {"distance", "dirty", "bumped_branch", "bumped_commit_hash",
                  "bumped_timestamp"}

WithContext(m, distance, dirty, bumped_branch, bumped_commit_hash, bumped_timestamp) ==
    [m EXCEPT !.distance = distance, !.dirty = dirty, !.bumped_branch = bumped_branch,
              !.bumped_commit_hash = bumped_commit_hash,
              !.bumped_timestamp = bumped_timestamp]

\* The label a label name denotes.
LabelOf(name) ==
    CASE name = "alpha" -> "Alpha"
      [] name = "beta" -> "Beta"
      [] name = "rc" -> "RC"

IsLabelName(name) == \E i \in 1..Len(FlowPreReleaseLabel) : FlowPreReleaseLabel[i] = name

(***************************************************************************)
(* BumpEngine.                                                             *)
(***************************************************************************)
\* The schema's resolved field order of the standard presets.
StandardOrder == BumpType

\* A resolved field order that ranks dev above post.
DevFirstOrder == <<"epoch", "major", "minor", "patch",
                   "pre_release_label", "pre_release_num", "dev", "post">>

IndexOf(order, f) == CHOOSE i \in 1..Len(order) : order[i] = f

\* The numeric fields (pre_release_label holds a label).
IsNumericField(f) == f # "pre_release_label"

\* A numeric field's current value, 0 when absent.
Current(m, f) ==
    CASE f = "epoch" -> ValueOr(m.epoch, 0)
      [] f = "major" -> m.major
      [] f = "minor" -> m.minor
      [] f = "patch" -> m.patch
      [] f = "post" -> ValueOr(m.post, 0)
      [] f = "dev" -> ValueOr(m.dev, 0)
      [] f = "pre_release_num" ->
            IF IsNone(m.pre_release) THEN 0 ELSE ValueOr(m.pre_release[1].number, 0)

SetField(m, f, v) ==
    CASE f = "epoch" -> [m EXCEPT !.epoch = Some(v)]
      [] f = "major" -> [m EXCEPT !.major = v]
      [] f = "minor" -> [m EXCEPT !.minor = v]
      [] f = "patch" -> [m EXCEPT !.patch = v]
      [] f = "post" -> [m EXCEPT !.post = Some(v)]
      [] f = "dev" -> [m EXCEPT !.dev = Some(v)]
      [] f = "pre_release_num" ->      \* of a model that has a pre_release
            [m EXCEPT !.pre_release = Some(PreRelease(m.pre_release[1].label, Some(v)))]

SetLabel(m, label) ==
    [m EXCEPT !.pre_release =
        Some(PreRelease(label,
                        IF IsNone(m.pre_release) THEN None
                        ELSE m.pre_release[1].number))]

\* A field's absent/zero state.
ResetField(m, f) ==
    CASE f = "epoch" -> [m EXCEPT !.epoch = None]
      [] f = "major" -> [m EXCEPT !.major = 0]
      [] f = "minor" -> [m EXCEPT !.minor = 0]
      [] f = "patch" -> [m EXCEPT !.patch = 0]
      [] f = "post" -> [m EXCEPT !.post = None]
      [] f = "dev" -> [m EXCEPT !.dev = None]
      [] f = "pre_release_label" -> [m EXCEPT !.pre_release = None]
      [] f = "pre_release_num" ->
            IF IsNone(m.pre_release) THEN m
            ELSE [m EXCEPT !.pre_release =
                     Some(PreRelease(m.pre_release[1].label, Some(0)))]

\* Reset order[i], order[i+1], ...
RECURSIVE ResetFrom(_, _, _)
ResetFrom(m, order, i) ==
    IF i > Len(order) THEN m
    ELSE ResetFrom(ResetField(m, order[i]), order, i + 1)

ResetLower(m, order, f) == ResetFrom(m, order, IndexOf(order, f) + 1)

ResetContext(m) ==
    [m EXCEPT !.distance = None, !.dirty = None, !.bumped_branch = None,
              !.bumped_commit_hash = None, !.bumped_timestamp = None]

\* slip: the lower fields are not reset.
BumpKeepsLower(m, order, field, amount, bump_context) ==
    LET raised == SetField(m, field, Current(m, field) + amount)
    IN  IF bump_context THEN ResetContext(raised) ELSE raised

\* bump(model, field, amount, bump_context) for a numeric field.
bump(m, order, field, amount, bump_context) ==
    LET raised == SetField(m, field, Current(m, field) + amount)
        lowered == ResetLower(raised, order, field)
    IN  IF bump_context THEN ResetContext(lowered) ELSE lowered

\* slip: the label moves one step on from the current one, the name ignored.
BumpLabelSteps(m, order, name, bump_context) ==
    LET now == IF IsNone(m.pre_release) THEN "Alpha"
               ELSE IF m.pre_release[1].label = "Alpha" THEN "Beta" ELSE "RC"
        lowered == ResetLower(SetLabel(m, now), order, "pre_release_label")
    IN  IF bump_context THEN ResetContext(lowered) ELSE lowered

\* Bumping pre_release_label: the request names the label.
bump_pre_release_label(m, order, name, bump_context) ==
    LET lowered == ResetLower(SetLabel(m, LabelOf(name)), order, "pre_release_label")
    IN  IF bump_context THEN ResetContext(lowered) ELSE lowered

(***************************************************************************)
(* The engine's command line: the options of `zerv version`.               *)
(***************************************************************************)
OptionIndex(a) == {i \in 1..Len(VersionOptions) : VersionOptions[i][1] = a}
IsOption(a) == OptionIndex(a) # {}
KwargOf(a) == VersionOptions[CHOOSE i \in OptionIndex(a) : TRUE][2]

\* Options that take no value.
Switches == {"dirty", "no_dirty", "clean", "bump_context", "no_bump_context"}

BumpOption(f) == "bump_" \o f

NumericFields == {BumpType[i] : i \in 1..Len(BumpType)} \ {"pre_release_label"}

\* A bump option given without a value bumps by 1.
DefaultAmount == "1"

NoOptions == [k \in VersionKwargs |-> [given |-> FALSE, value |-> ""]]

RECURSIVE ParseArgs(_, _, _)
ParseArgs(args, i, opts) ==
    IF i > Len(args) THEN [ok |-> TRUE, opts |-> opts]
    ELSE IF ~IsOption(args[i]) THEN [ok |-> FALSE, opts |-> opts]
    ELSE LET k == KwargOf(args[i])
         IN  IF k \in Switches
             THEN ParseArgs(args, i + 1,
                            [opts EXCEPT ![k] = [given |-> TRUE, value |-> ""]])
             ELSE IF i < Len(args) /\ ~IsOption(args[i + 1])
             THEN ParseArgs(args, i + 2,
                            [opts EXCEPT ![k] = [given |-> TRUE, value |-> args[i + 1]]])
             ELSE IF k \in {BumpOption(f) : f \in NumericFields}
             THEN ParseArgs(args, i + 1,
                            [opts EXCEPT ![k] = [given |-> TRUE, value |-> DefaultAmount]])
             ELSE [ok |-> FALSE, opts |-> opts]

OutputFormats == {"semver", "pep440", "zerv"}

\* The values given parse: numbers are decimal, labels are label names, and
\* --bump-context is not given together with --no-bump-context.
ValidOptions(opts) ==
    /\ \A f \in NumericFields :
          /\ opts[f].given => AllDigits(opts[f].value)
          /\ opts[BumpOption(f)].given => AllDigits(opts[BumpOption(f)].value)
    /\ opts["pre_release_label"].given => IsLabelName(opts["pre_release_label"].value)
    /\ opts["bump_pre_release_label"].given =>
          IsLabelName(opts["bump_pre_release_label"].value)
    /\ opts["output_format"].given => opts["output_format"].value \in OutputFormats
    /\ opts["source"].given => opts["source"].value \in {"git", "stdin"}
    /\ ~(opts["bump_context"].given /\ opts["no_bump_context"].given)

\* slip: a bump is added on top of an override of the same field.
RECURSIVE ApplyFieldsBumpsOverride(_, _, _, _, _)
ApplyFieldsBumpsOverride(m, order, todo, opts, bump_context) ==
    IF todo = <<>> THEN m
    ELSE LET f == Head(todo)
             ov == opts[f]
             bp == opts[BumpOption(f)]
             set == IF ~ov.given THEN m
                    ELSE IF f = "pre_release_label" THEN SetLabel(m, LabelOf(ov.value))
                    ELSE SetField(m, f, StrToInt(ov.value))
             next == IF ~bp.given THEN set
                     ELSE IF f = "pre_release_label"
                     THEN bump_pre_release_label(set, order, bp.value, bump_context)
                     ELSE bump(set, order, f, StrToInt(bp.value), bump_context)
         IN  ApplyFieldsBumpsOverride(next, order, Tail(todo), opts, bump_context)

\* Overrides and bumps of the fields of todo, one after the other; an override of
\* a field wins over a bump of it.  order is the schema's resolved field order.
RECURSIVE ApplyFields(_, _, _, _, _)
ApplyFields(m, order, todo, opts, bump_context) ==
    IF todo = <<>> THEN m
    ELSE LET f == Head(todo)
             ov == opts[f]
             bp == opts[BumpOption(f)]
             next == IF ov.given
                     THEN IF f = "pre_release_label" THEN SetLabel(m, LabelOf(ov.value))
                          ELSE SetField(m, f, StrToInt(ov.value))
                     ELSE IF bp.given
                     THEN IF f = "pre_release_label"
                          THEN bump_pre_release_label(m, order, bp.value, bump_context)
                          ELSE bump(m, order, f, StrToInt(bp.value), bump_context)
                     ELSE m
         IN  ApplyFields(next, order, Tail(todo), opts, bump_context)

\* The fields args name (by an override or a bump), in the order they are requested.
RECURSIVE RequestOrder(_, _)
RequestOrder(args, i) ==
    IF i > Len(args) THEN <<>>
    ELSE IF IsOption(args[i])
            /\ \E f \in NumericFields \cup {"pre_release_label"} :
                  KwargOf(args[i]) \in {f, BumpOption(f)}
    THEN LET k == KwargOf(args[i])
             f == CHOOSE g \in NumericFields \cup {"pre_release_label"} :
                      k \in {g, BumpOption(g)}
         IN  <<f>> \o RequestOrder(args, i + 1)
    ELSE RequestOrder(args, i + 1)

\* slip: the fields are processed in the order requested.
ProcessingOrderAsRequested(input, args) == RequestOrder(args, 2)

\* The order the engine processes the fields in: the schema's resolved field
\* order, from the highest precedence to the lowest.
ProcessingOrder(input, args) == input.order

(***************************************************************************)
(* Renderer: the model in the SemVer and the PEP 440 form.                 *)
(***************************************************************************)
RECURSIVE Join(_, _)
Join(parts, sep) ==
    IF parts = <<>> THEN ""
    ELSE IF Len(parts) = 1 THEN parts[1]
    ELSE parts[1] \o sep \o Join(Tail(parts), sep)

Core(m) == IntToStr(m.major) \o "." \o IntToStr(m.minor) \o "." \o IntToStr(m.patch)

\* The label's SemVer identifier and its PEP 440 spelling.
SemVerLabel(label) ==
    CASE label = "Alpha" -> "alpha" [] label = "Beta" -> "beta" [] label = "RC" -> "rc"

Pep440Label(label) ==
    CASE label = "Alpha" -> "a" [] label = "Beta" -> "b" [] label = "RC" -> "rc"

SemVerIdentifiers(m) ==
    (IF IsNone(m.epoch) THEN <<>> ELSE <<"epoch", IntToStr(m.epoch[1])>>)
    \o (IF IsNone(m.pre_release) THEN <<>>
        ELSE <<SemVerLabel(m.pre_release[1].label)>>
             \o (IF IsNone(m.pre_release[1].number) THEN <<>>
                 ELSE <<IntToStr(m.pre_release[1].number[1])>>))
    \o (IF IsNone(m.post) THEN <<>> ELSE <<"post", IntToStr(m.post[1])>>)
    \o (IF IsNone(m.dev) THEN <<>> ELSE <<"dev", IntToStr(m.dev[1])>>)

render_semver(m) ==
    Core(m) \o (IF SemVerIdentifiers(m) = <<>> THEN ""
                ELSE "-" \o Join(SemVerIdentifiers(m), "."))

render_pep440(m) ==
    (IF IsNone(m.epoch) THEN "" ELSE IntToStr(m.epoch[1]) \o "!")
    \o Core(m)
    \o (IF IsNone(m.pre_release) THEN ""
        ELSE Pep440Label(m.pre_release[1].label)
             \o (IF IsNone(m.pre_release[1].number) THEN ""
                 ELSE IntToStr(m.pre_release[1].number[1])))
    \o (IF IsNone(m.post) THEN "" ELSE ".post" \o IntToStr(m.post[1]))
    \o (IF IsNone(m.dev) THEN "" ELSE ".dev" \o IntToStr(m.dev[1]))

(***************************************************************************)
(* Schema: the segments' fields and the precedence order.                  *)
(***************************************************************************)
Schema(core, extra_core, build, precedence_order) ==
    [core |-> core, extra_core |-> extra_core, build |-> build,
     precedence_order |-> precedence_order]

\* The schema of the sample payload.
SampleSchema ==
    Schema(<<"Major", "Minor", "Patch">>, <<>>,
           <<"BumpedBranch", "Distance", "BumpedCommitHashShort">>,
           <<"Major", "Minor", "Patch", "Build">>)

Segments == {"Core", "ExtraCore", "Build"}

\* What a segment may refer to: the fields of the canonical model (the commit hash
\* also in its short form).
VarNames ==
    {"Epoch", "Major", "Minor", "Patch", "PreRelease", "Post", "Dev",
     "Distance", "Dirty", "BumpedBranch", "BumpedCommitHash", "BumpedCommitHashShort",
     "BumpedTimestamp", "LastBranch", "LastCommitHash", "LastTimestamp",
     "LastTagVersion"}

\* slip: precedence_order may name the three segments only.
PrecedenceNamesSegmentsOnly == Segments

\* What precedence_order may name: a segment or a version field.
PrecedenceNames ==
    Segments \cup {"Epoch", "Major", "Minor", "Patch", "PreReleaseLabel",
                   "PreReleaseNum", "Post", "Dev"}

Elements(seq) == {seq[i] : i \in 1..Len(seq)}

NoDuplicates(seq) == \A i, j \in 1..Len(seq) : seq[i] = seq[j] => i = j

\* slip: only the precedence order is validated, not the segments' fields.
ValidateSchemaSkipsFields(s) ==
    /\ Elements(s.precedence_order) \subseteq PrecedenceNames
    /\ NoDuplicates(s.precedence_order)

\* Schema validation: every name of precedence_order is known and named once, and
\* every field of a segment exists, in one segment only.
validate_schema(s) ==
    /\ Elements(s.precedence_order) \subseteq PrecedenceNames
    /\ NoDuplicates(s.precedence_order)
    /\ Elements(s.core \o s.extra_core \o s.build) \subseteq VarNames
    /\ NoDuplicates(s.core \o s.extra_core \o s.build)

(***************************************************************************)
(* The zerv format: serialize.                                             *)
(***************************************************************************)
Quote == "\""

\* slip: a present zero is written as an absent value.
OptIntDropsZero(o) ==
    IF IsNone(o) \/ o[1] = 0 THEN "None" ELSE "Some(" \o IntToStr(o[1]) \o ")"

OptInt(o) == IF IsNone(o) THEN "None" ELSE "Some(" \o IntToStr(o[1]) \o ")"

OptBool(o) ==
    IF IsNone(o) THEN "None" ELSE "Some(" \o (IF o[1] THEN "true" ELSE "false") \o ")"

OptStr(o) == IF IsNone(o) THEN "None" ELSE "Some(" \o Quote \o o[1] \o Quote \o ")"

OptPreRelease(o) ==
    IF IsNone(o) THEN "None"
    ELSE "Some((label: " \o o[1].label \o ", number: " \o OptInt(o[1].number) \o "))"

SerializeVars(m) ==
    "(major: " \o OptInt(Some(m.major))
    \o ", minor: " \o OptInt(Some(m.minor))
    \o ", patch: " \o OptInt(Some(m.patch))
    \o ", epoch: " \o OptInt(m.epoch)
    \o ", pre_release: " \o OptPreRelease(m.pre_release)
    \o ", post: " \o OptInt(m.post)
    \o ", dev: " \o OptInt(m.dev)
    \o ", distance: " \o OptInt(m.distance)
    \o ", dirty: " \o OptBool(m.dirty)
    \o ", bumped_branch: " \o OptStr(m.bumped_branch)
    \o ", bumped_commit_hash: " \o OptStr(m.bumped_commit_hash)
    \o ", bumped_timestamp: " \o OptInt(m.bumped_timestamp)
    \o ", last_branch: " \o OptStr(m.last_branch)
    \o ", last_commit_hash: " \o OptStr(m.last_commit_hash)
    \o ", last_timestamp: " \o OptInt(m.last_timestamp)
    \o ", last_tag_version: " \o OptStr(m.last_tag_version)
    \o ", custom: ())"

SerializeList(items) == "[" \o Join(items, ", ") \o "]"

SerializeSchema(s) ==
    "(core: " \o SerializeList([i \in 1..Len(s.core) |-> "var(" \o s.core[i] \o ")"])
    \o ", extra_core: "
    \o SerializeList([i \in 1..Len(s.extra_core) |-> "var(" \o s.extra_core[i] \o ")"])
    \o ", build: "
    \o SerializeList([i \in 1..Len(s.build) |-> "var(" \o s.build[i] \o ")"])
    \o ", precedence_order: " \o SerializeList(s.precedence_order) \o ")"

\* serialize: the payload of output_format zerv.
serialize(s, m) ==
    "(\n    schema: " \o SerializeSchema(s) \o ",\n    vars: " \o SerializeVars(m) \o ",\n)"

(***************************************************************************)
(* The zerv format: deserialize.                                           *)
(***************************************************************************)
\* Reading one character: the bracket depth, whether a string literal is open,
\* and the positions of the commas outside brackets and literals so far.
Step(st, c, i) ==
    IF st.quoted THEN [st EXCEPT !.quoted = (c # Quote)]
    ELSE IF c = Quote THEN [st EXCEPT !.quoted = TRUE]
    ELSE IF c \in {"(", "["} THEN [st EXCEPT !.depth = @ + 1]
    ELSE IF c \in {")", "]"} THEN [st EXCEPT !.depth = @ - 1]
    ELSE IF c = "," /\ st.depth = 0 THEN [st EXCEPT !.cuts = Append(@, i)]
    ELSE st

\* Reading s[lo..hi] from the left to the right; the reading stops at a closing
\* bracket that has no opening one.
RECURSIVE Scan(_, _, _, _)
Scan(s, lo, hi, st) ==
    IF lo > hi THEN st
    ELSE IF lo = hi THEN Step(st, CharAt(s, lo), lo)
    ELSE LET left == Scan(s, lo, (lo + hi) \div 2, st)
         IN  IF left.depth < 0 THEN left
             ELSE Scan(s, (lo + hi) \div 2 + 1, hi, left)

ScanAll(s) == Scan(s, 1, Len(s), [depth |-> 0, quoted |-> FALSE, cuts |-> <<>>])

\* Every bracket and every string literal of the text read is closed.
Balanced(st) == st.depth = 0 /\ ~st.quoted

\* The pieces of s between the commas at cuts, white space around them removed; a
\* trailing comma ends the last piece.
PiecesAt(s, cuts) ==
    LET bounds == <<0>> \o cuts \o <<Len(s) + 1>>
        all == [k \in 1..(Len(cuts) + 1) |->
                    strip(SubSeq(s, bounds[k] + 1, bounds[k + 1] - 1))]
    IN  IF all[Len(all)] = "" THEN SubSeq(all, 1, Len(all) - 1) ELSE all

\* The pieces of s between the commas outside brackets and string literals.
Pieces(s) == PiecesAt(s, ScanAll(s).cuts)

StartsWith(s, p) == Len(s) >= Len(p) /\ SubSeq(s, 1, Len(p)) = p

EndsWith(s, p) == Len(s) >= Len(p) /\ SubSeq(s, Len(s) - Len(p) + 1, Len(s)) = p

Wrapped(s, open, close) ==
    Len(s) >= Len(open) + Len(close) /\ StartsWith(s, open) /\ EndsWith(s, close)

Inner(s, open, close) == SubSeq(s, Len(open) + 1, Len(s) - Len(close))

\* name: value
IsEntry(piece) == \E i \in 1..Len(piece) : CharAt(piece, i) = ":"

Colon(piece) == CHOOSE i \in 1..Len(piece) :
                    /\ CharAt(piece, i) = ":"
                    /\ \A j \in 1..(i - 1) : CharAt(piece, j) # ":"

EntryName(piece) == strip(SubSeq(piece, 1, Colon(piece) - 1))

EntryValue(piece) == strip(SubSeq(piece, Colon(piece) + 1, Len(piece)))

NoStruct == [ok |-> FALSE, names |-> <<>>, values |-> <<>>]

\* The fields of the struct (name: value, ...): ok when every piece is an entry
\* and no name comes twice.
StructOf(pieces) ==
    IF \E i \in 1..Len(pieces) : ~IsEntry(pieces[i]) THEN NoStruct
    ELSE [ok |-> NoDuplicates([i \in 1..Len(pieces) |-> EntryName(pieces[i])]),
          names |-> [i \in 1..Len(pieces) |-> EntryName(pieces[i])],
          values |-> [i \in 1..Len(pieces) |-> EntryValue(pieces[i])]]

Entries(inner, read) ==
    IF ~Balanced(read) THEN NoStruct ELSE StructOf(PiecesAt(inner, read.cuts))

Struct(s) ==
    IF ~Wrapped(s, "(", ")") THEN NoStruct
    ELSE Entries(Inner(s, "(", ")"), ScanAll(Inner(s, "(", ")")))

\* The struct has exactly the fields named.
HasFields(st, names) == st.ok /\ Elements(st.names) = names

Field(st, name) == st.values[CHOOSE i \in 1..Len(st.names) : st.names[i] = name]

IsOptInt(v) == v = "None" \/ (Wrapped(v, "Some(", ")") /\ AllDigits(Inner(v, "Some(", ")")))

ReadOptInt(v) == IF v = "None" THEN None ELSE Some(StrToInt(Inner(v, "Some(", ")")))

IsOptBool(v) == v \in {"None", "Some(true)", "Some(false)"}

ReadOptBool(v) == IF v = "None" THEN None ELSE Some(v = "Some(true)")

IsOptStr(v) ==
    v = "None" \/ (/\ Wrapped(v, "Some(" \o Quote, Quote \o ")")
                   /\ LET body == Inner(v, "Some(" \o Quote, Quote \o ")")
                      IN  \A i \in 1..Len(body) : CharAt(body, i) # Quote)

ReadOptStr(v) ==
    IF v = "None" THEN None ELSE Some(Inner(v, "Some(" \o Quote, Quote \o ")"))

IsPreRelease(st) ==
    /\ HasFields(st, {"label", "number"})
    /\ Field(st, "label") \in {"Alpha", "Beta", "RC"}
    /\ IsOptInt(Field(st, "number"))

ReadPreRelease(st) == PreRelease(Field(st, "label"), ReadOptInt(Field(st, "number")))

IsOptPreRelease(v) ==
    v = "None" \/ (Wrapped(v, "Some(", ")") /\ IsPreRelease(Struct(Inner(v, "Some(", ")"))))

ReadOptPreRelease(v) ==
    IF v = "None" THEN None ELSE Some(ReadPreRelease(Struct(Inner(v, "Some(", ")"))))

IntFields == {"major", "minor", "patch", "epoch", "post", "dev", "distance",
              "bumped_timestamp", "last_timestamp"}

StrFields == {"bumped_branch", "bumped_commit_hash", "last_branch", "last_commit_hash",
              "last_tag_version"}

VarsFields == IntFields \cup StrFields \cup {"pre_release", "dirty", "custom"}

IsVars(st) ==
    /\ HasFields(st, VarsFields)
    /\ \A f \in IntFields : IsOptInt(Field(st, f))
    /\ \A f \in StrFields : IsOptStr(Field(st, f))
    /\ IsOptPreRelease(Field(st, "pre_release"))
    /\ IsOptBool(Field(st, "dirty"))

\* major, minor and patch default to 0 when absent.
ReadVars(st) ==
    [epoch |-> ReadOptInt(Field(st, "epoch")),
     major |-> ValueOr(ReadOptInt(Field(st, "major")), 0),
     minor |-> ValueOr(ReadOptInt(Field(st, "minor")), 0),
     patch |-> ValueOr(ReadOptInt(Field(st, "patch")), 0),
     pre_release |-> ReadOptPreRelease(Field(st, "pre_release")),
     post |-> ReadOptInt(Field(st, "post")),
     dev |-> ReadOptInt(Field(st, "dev")),
     distance |-> ReadOptInt(Field(st, "distance")),
     dirty |-> ReadOptBool(Field(st, "dirty")),
     bumped_branch |-> ReadOptStr(Field(st, "bumped_branch")),
     bumped_commit_hash |-> ReadOptStr(Field(st, "bumped_commit_hash")),
     bumped_timestamp |-> ReadOptInt(Field(st, "bumped_timestamp")),
     last_branch |-> ReadOptStr(Field(st, "last_branch")),
     last_commit_hash |-> ReadOptStr(Field(st, "last_commit_hash")),
     last_timestamp |-> ReadOptInt(Field(st, "last_timestamp")),
     last_tag_version |-> ReadOptStr(Field(st, "last_tag_version"))]

IsList(v) == Wrapped(v, "[", "]")

ListItems(v) == Pieces(Inner(v, "[", "]"))

IsVarList(v) ==
    /\ IsList(v)
    /\ \A i \in 1..Len(ListItems(v)) : Wrapped(ListItems(v)[i], "var(", ")")

ReadVarList(v) ==
    [i \in 1..Len(ListItems(v)) |-> Inner(ListItems(v)[i], "var(", ")")]

SchemaFields == {"core", "extra_core", "build", "precedence_order"}

IsSchema(st) ==
    /\ HasFields(st, SchemaFields)
    /\ \A f \in {"core", "extra_core", "build"} : IsVarList(Field(st, f))
    /\ IsList(Field(st, "precedence_order"))

ReadSchema(st) ==
    Schema(ReadVarList(Field(st, "core")), ReadVarList(Field(st, "extra_core")),
           ReadVarList(Field(st, "build")), ListItems(Field(st, "precedence_order")))

Refused ==
    [ok |-> FALSE, schema |-> Schema(<<>>, <<>>, <<>>, <<>>),
     vars |-> CanonicalModel(None, 0, 0, 0, None, None, None)]

LoadedParts(sc, vs) ==
    IF IsSchema(sc) /\ IsVars(vs)
    THEN [ok |-> TRUE, schema |-> ReadSchema(sc), vars |-> ReadVars(vs)]
    ELSE Refused

Loaded(st) ==
    IF HasFields(st, {"schema", "vars"})
    THEN LoadedParts(Struct(Field(st, "schema")), Struct(Field(st, "vars")))
    ELSE Refused

\* deserialize: the schema and the vars of a payload; a malformed payload is
\* refused as a whole.
deserialize(payload) == Loaded(Struct(strip(payload)))

\* The sample payload of the standard-input tests.
SAMPLE_ZERV_INPUT ==
    "(\n    schema: (\n        core: [\n            var(Major),\n            var(Minor),\n            var(Patch),\n        ],\n        extra_core: [],\n        build: [\n            var(BumpedBranch),\n            var(Distance),\n            var(BumpedCommitHashShort),\n        ],\n        precedence_order: [\n            Major,\n            Minor,\n            Patch,\n            Build,\n        ],\n    ),\n    vars: (\n        major: Some(1),\n        minor: Some(2),\n        patch: Some(3),\n        epoch: None,\n        pre_release: None,\n        post: None,\n        dev: None,\n        distance: Some(5),\n        dirty: Some(true),\n        bumped_branch: Some(\"feature/test\"),\n        bumped_commit_hash: Some(\"abc123def\"),\n        bumped_timestamp: Some(1234567890),\n        last_branch: None,\n        last_commit_hash: Some(\"abc123def456\"),\n        last_timestamp: Some(1234567890),\n        last_tag_version: Some(\"v1.2.3\"),\n        custom: (),\n    ),\n)"

(***************************************************************************)
(* SchemaRegistry: the presets.  A name is a family, a depth and whether   *)
(* the VCS context is in the build segment.                                *)
(***************************************************************************)
\* slip: the binding's list without standard-no-context.
StandardSchemaWithoutNoContext ==
    <<"standard", "standard-base", "standard-base-prerelease",
      "standard-base-prerelease-post", "standard-base-prerelease-post-dev",
      "standard-base-context", "standard-base-prerelease-context",
      "standard-base-prerelease-post-context",
      "standard-base-prerelease-post-dev-context", "standard-context">>

StandardSchema ==
    <<"standard", "standard-no-context", "standard-base", "standard-base-prerelease",
      "standard-base-prerelease-post", "standard-base-prerelease-post-dev",
      "standard-base-context", "standard-base-prerelease-context",
      "standard-base-prerelease-post-context",
      "standard-base-prerelease-post-dev-context", "standard-context">>

CalverSchema ==
    <<"calver", "calver-no-context", "calver-base", "calver-base-prerelease",
      "calver-base-prerelease-post", "calver-base-prerelease-post-dev",
      "calver-base-context", "calver-base-prerelease-context",
      "calver-base-prerelease-post-context",
      "calver-base-prerelease-post-dev-context", "calver-context">>

\* SchemaPreset = StandardSchema | CalverSchema
SchemaPreset == Elements(StandardSchema) \cup Elements(CalverSchema)

Family(name) == IF StartsWith(name, "calver") THEN "calver" ELSE "standard"

\* The name without its family and without its context suffix.
Depth(name) ==
    CASE EndsWith(name, "-no-context") ->
            SubSeq(name, Len(Family(name)) + 1, Len(name) - Len("-no-context"))
      [] EndsWith(name, "-context") ->
            SubSeq(name, Len(Family(name)) + 1, Len(name) - Len("-context"))
      [] OTHER -> SubSeq(name, Len(Family(name)) + 1, Len(name))

HasContext(name) == EndsWith(name, "-context") /\ ~EndsWith(name, "-no-context")

\* The core of a family: the calver core is dated by the timestamp.
PresetCore(family) ==
    IF family = "calver" THEN <<"LastTimestamp", "Patch">>
    ELSE <<"Major", "Minor", "Patch">>

\* How many of pre_release, post, dev the depth includes: without a depth, all.
PresetExtraCore(depth) ==
    CASE depth = "-base" -> <<>>
      [] depth = "-base-prerelease" -> <<"PreRelease">>
      [] depth = "-base-prerelease-post" -> <<"PreRelease", "Post">>
      [] OTHER -> <<"PreRelease", "Post", "Dev">>

PresetBuild(context) ==
    IF context THEN <<"BumpedBranch", "Distance", "BumpedCommitHashShort">> ELSE <<>>

UnknownPreset == [ok |-> FALSE, schema |-> Schema(<<>>, <<>>, <<>>, <<>>)]

\* resolve(preset_name)
resolve(name) ==
    IF name \notin SchemaPreset THEN UnknownPreset
    ELSE [ok |-> TRUE,
          schema |-> Schema(PresetCore(Family(name)), PresetExtraCore(Depth(name)),
                            PresetBuild(HasContext(name)),
                            <<"Core", "ExtraCore", "Build">>)]

\* The schema of --schema, that of the source without it.
WithPreset(start, opts) ==
    IF opts["schema"].given
    THEN [start EXCEPT !.schema = resolve(opts["schema"].value).schema]
    ELSE start

(***************************************************************************)
(* Renderer: the template.  {{fieldname}} is a placeholder; the rest of    *)
(* the text is kept as it is.                                              *)
(***************************************************************************)
\* The first position from p on where the text has w: 0 when nowhere.
Find(t, w, p) ==
    IF \E q \in p..(Len(t) - Len(w) + 1) : SubSeq(t, q, q + Len(w) - 1) = w
    THEN CHOOSE q \in p..(Len(t) - Len(w) + 1) :
            /\ SubSeq(t, q, q + Len(w) - 1) = w
            /\ \A r \in p..(q - 1) : SubSeq(t, r, r + Len(w) - 1) # w
    ELSE 0

\* The field of the schema a placeholder names.
TemplateFields ==
    [epoch |-> "Epoch", major |-> "Major", minor |-> "Minor", patch |-> "Patch",
     post |-> "Post", dev |-> "Dev", distance |-> "Distance", dirty |-> "Dirty",
     bumped_branch |-> "BumpedBranch", bumped_commit_hash |-> "BumpedCommitHash",
     bumped_timestamp |-> "BumpedTimestamp", last_branch |-> "LastBranch",
     last_commit_hash |-> "LastCommitHash", last_timestamp |-> "LastTimestamp",
     last_tag_version |-> "LastTagVersion"]

\* The field is one of a segment of the schema.
InSchema(name, s) ==
    /\ name \in DOMAIN TemplateFields
    /\ TemplateFields[name] \in Elements(s.core \o s.extra_core \o s.build)

\* The textual value of a field: nothing for an absent one.
TextOf(m, name) ==
    CASE name \notin DOMAIN TemplateFields -> ""
      [] name \in {"major", "minor", "patch"} -> IntToStr(m[name])
      [] IsNone(m[name]) -> ""
      [] name \in {"epoch", "post", "dev", "distance", "bumped_timestamp",
                   "last_timestamp"} -> IntToStr(m[name][1])
      [] name = "dirty" -> IF m[name][1] THEN "true" ELSE "false"
      [] OTHER -> m[name][1]

PlaceholderAt(t, i, j) == strip(SubSeq(t, i + 2, j - 1))

\* The names of the placeholders of the template, in their order.
RECURSIVE Placeholders(_)
PlaceholdersIn(t, i, j) ==
    IF i = 0 \/ j = 0 THEN <<>>
    ELSE <<PlaceholderAt(t, i, j)>> \o Placeholders(SubSeq(t, j + 2, Len(t)))

PlaceholdersFrom(t, i) == PlaceholdersIn(t, i, IF i = 0 THEN 0 ELSE Find(t, "}}", i + 2))

Placeholders(t) == PlaceholdersFrom(t, Find(t, "{{", 1))

\* slip: a placeholder of a field outside the schema is let through.
TemplateFitsAnySchema(t, s) == TRUE

\* Every placeholder names a field of the active schema.
TemplateFits(t, s) ==
    \A i \in 1..Len(Placeholders(t)) : InSchema(Placeholders(t)[i], s)

\* The template with every placeholder replaced by the value of its field.
RECURSIVE render_template(_, _)
SubstituteIn(t, m, i, j) ==
    IF i = 0 \/ j = 0 THEN t
    ELSE SubSeq(t, 1, i - 1) \o TextOf(m, PlaceholderAt(t, i, j))
         \o render_template(SubSeq(t, j + 2, Len(t)), m)

SubstituteFrom(t, m, i) == SubstituteIn(t, m, i, IF i = 0 THEN 0 ELSE Find(t, "}}", i + 2))

render_template(t, m) == SubstituteFrom(t, m, Find(t, "{{", 1))

(***************************************************************************)
(* The engine's `version` command.                                         *)
(***************************************************************************)
\* The text printed for the resulting model.
Output(s, m, opts) ==
    LET format == IF opts["output_format"].given THEN opts["output_format"].value
                  ELSE "semver"
        body == CASE opts["output_template"].given ->
                         render_template(opts["output_template"].value, m)
                  [] format = "pep440" -> render_pep440(m)
                  [] format = "zerv" -> serialize(s, m)
                  [] OTHER -> render_semver(m)
    IN  (IF opts["output_prefix"].given THEN opts["output_prefix"].value ELSE "")
        \o body \o "\n"

Failure(input, returncode, stderr) ==
    [returncode |-> returncode, stdout |-> "", stderr |-> stderr,
     vars |-> input.vars, order |-> input.order, schema |-> input.schema]

\* The payload at standard input as what the command starts from: refused when
\* it is malformed or its schema is not valid.
FromPayload(loaded) ==
    [ok |-> loaded.ok /\ validate_schema(loaded.schema),
     stderr |-> IF loaded.ok THEN "invalid schema" ELSE "invalid payload",
     vars |-> loaded.vars, order |-> StandardOrder, schema |-> loaded.schema]

\* What the command starts from: the payload at standard input when the source is
\* stdin, else what the repository gives.
Source(input, opts) ==
    IF opts["source"].given /\ opts["source"].value = "stdin"
    THEN FromPayload(deserialize(input.stdin))
    ELSE [ok |-> TRUE, stderr |-> "", vars |-> input.vars, order |-> input.order,
          schema |-> input.schema]

Success(start, m, opts) ==
    [returncode |-> 0, stdout |-> Output(start.schema, m, opts), stderr |-> "",
     vars |-> m, order |-> start.order, schema |-> start.schema]

\* The command from where it starts: the overrides and bumps, then the output.
VersionFrom(input, start, args, opts) ==
    IF ~start.ok THEN Failure(input, 1, start.stderr)
    ELSE IF /\ opts["output_template"].given
            /\ ~TemplateFits(opts["output_template"].value, start.schema)
    THEN Failure(input, 1, "SchemaFieldMissing")
    ELSE Success(start,
                 ApplyFields(start.vars, start.order, ProcessingOrder(start, args),
                             opts, opts["bump_context"].given),
                 opts)

VersionWith(input, args, parsed) ==
    IF ~parsed.ok \/ ~ValidOptions(parsed.opts) THEN Failure(input, 2, "usage")
    ELSE IF parsed.opts["schema"].given /\ ~resolve(parsed.opts["schema"].value).ok
    THEN Failure(input, 1, "UnknownPreset")
    ELSE VersionFrom(input, WithPreset(Source(input, parsed.opts), parsed.opts), args,
                     parsed.opts)

\* `zerv version <args>` in the environment input (what the repository gives: the
\* vars, the schema and its resolved field order; and the text at standard input):
\* usage errors exit 2, a refused payload exits 1.
zerv_version(input, args) == VersionWith(input, args, ParseArgs(args, 2, NoOptions))

(***************************************************************************)
(* The binding: _run_zerv_command and version().                           *)
(***************************************************************************)
\* subprocess.run([zerv_bin, *args]) with the input the process finds.
subprocess_run(input, args) ==
    IF Len(args) > 0 /\ args[1] = "version" THEN zerv_version(input, args)
    ELSE Failure(input, 2, "usage")

\* slip: only the exit code 1 counts as a failure.
CompletedFailsOnOne(result) ==
    IF result.returncode = 1
    THEN [raised |-> TRUE, value |-> "zerv command failed: " \o result.stderr,
          process |-> result]
    ELSE [raised |-> FALSE, value |-> strip(result.stdout), process |-> result]

\* What _run_zerv_command makes of the completed process: the RuntimeError it
\* raises, or the output stripped.
Completed(result) ==
    IF result.returncode # 0
    THEN [raised |-> TRUE, value |-> "zerv command failed: " \o result.stderr,
          process |-> result]
    ELSE [raised |-> FALSE, value |-> strip(result.stdout), process |-> result]

\* _run_zerv_command(args)
_run_zerv_command(input, args) == Completed(subprocess_run(input, args))

\* version(**kwargs): the argument list handed to the binary.
version_args(kwargs) == _extend_args(<<"version">>, VersionFlags(kwargs))

(***************************************************************************)
(* The grammars of the parser draft.  A pattern is read as the set of      *)
(* positions a match may end at, from the set of positions it may start    *)
(* at; position p stands before the p-th character.  The patterns are      *)
(* compiled with IGNORECASE, so letters are compared without their case:   *)
(* besides the 52 letters, a str pattern takes the long s (U+017F) for an *)
(* s and the dotless i (U+0131) for an i.  Strings here are ASCII, so the  *)
(* two letters are written with characters no version text uses.           *)
(***************************************************************************)
\* U+017F LATIN SMALL LETTER LONG S
LongS == "$"

\* U+0131 LATIN SMALL LETTER DOTLESS I
DotlessI == "%"

LowerCase == "abcdefghijklmnopqrstuvwxyz"

UpperCase == "ABCDEFGHIJKLMNOPQRSTUVWXYZ"

IsLower(c) == \E i \in 1..Len(LowerCase) : CharAt(LowerCase, i) = c

IsUpper(c) == \E i \in 1..Len(UpperCase) : CharAt(UpperCase, i) = c

lower(c) ==
    IF IsUpper(c)
    THEN CharAt(LowerCase, CHOOSE i \in 1..Len(UpperCase) : CharAt(UpperCase, i) = c)
    ELSE c

\* The letter a pattern compiled with IGNORECASE compares: str.lower() of the
\* 52 letters, s for the long s, i for the dotless i.
IgnoreCase(c) ==
    CASE c = LongS -> "s"
      [] c = DotlessI -> "i"
      [] OTHER -> lower(c)

\* [1-9]
IsNonZeroDigit(c) == IsDigit(c) /\ c # "0"

\* [a-zA-Z] under IGNORECASE
IsLetter(c) == IsLower(c) \/ IsUpper(c) \/ c \in {LongS, DotlessI}

\* [a-zA-Z0-9], and [a-z0-9] under IGNORECASE
IsAlnum(c) == IsLetter(c) \/ IsDigit(c)

\* [a-zA-Z-]
IsLetterOrHyphen(c) == IsLetter(c) \/ c = "-"

\* [0-9a-zA-Z-]
IsAlnumOrHyphen(c) == IsAlnum(c) \/ c = "-"

\* [-_\.]
IsSeparator(c) == c \in {"-", "_", "."}

\* One character of a class.
One(s, P, In(_)) == {p + 1 : p \in {q \in P : q <= Len(s) /\ In(CharAt(s, q))}}

\* class*
Many(s, P, In(_)) ==
    {q \in 1..(Len(s) + 1) :
        \E p \in P : p <= q /\ \A i \in p..(q - 1) : In(CharAt(s, i))}

\* class+
OneOrMore(s, P, In(_)) == Many(s, One(s, P, In), In)

\* The word w (lower case), letters compared without case.
Word(s, P, w) ==
    {p + Len(w) :
        p \in {q \in P : /\ q + Len(w) - 1 <= Len(s)
                         /\ \A i \in 1..Len(w) : IgnoreCase(CharAt(s, q + i - 1)) = CharAt(w, i)}}

\* w1|w2|...
Words(s, P, W) == UNION {Word(s, P, w) : w \in W}

\* pattern?
Maybe(P, Q) == P \cup Q

\* $ : the end of the string, or just before a newline that ends it.
AtEnd(s, p) == p = Len(s) + 1 \/ (p = Len(s) /\ CharAt(s, p) = "\n")

\* (?:\.[0-9]+)*
RECURSIVE DotNumbers(_, _)
DotNumbers(s, P) ==
    IF OneOrMore(s, Word(s, P, "."), IsDigit) \subseteq P THEN P
    ELSE DotNumbers(s, P \cup OneOrMore(s, Word(s, P, "."), IsDigit))

\* [0-9]+(?:\.[0-9]+)*
Release(s, P) == DotNumbers(s, OneOrMore(s, P, IsDigit))

\* [-_\.]? label [-_\.]? [0-9]+?   for the labels of L
Labelled(s, P, L) ==
    Maybe(Maybe(Words(s, Maybe(P, One(s, P, IsSeparator)), L),
                One(s, Words(s, Maybe(P, One(s, P, IsSeparator)), L), IsSeparator)),
          OneOrMore(s, Maybe(Words(s, Maybe(P, One(s, P, IsSeparator)), L),
                             One(s, Words(s, Maybe(P, One(s, P, IsSeparator)), L),
                                 IsSeparator)),
                    IsDigit))

PreLabels == {"alpha", "a", "beta", "b", "preview", "pre", "c", "rc"}

PostLabels == {"post", "rev", "r"}

\* (?P<pre>...)?
Pep440Pre(s, P) == Maybe(P, Labelled(s, P, PreLabels))

\* (?P<post>...)? : -N, or a post label
Pep440Post(s, P) ==
    Maybe(P, OneOrMore(s, Word(s, P, "-"), IsDigit) \cup Labelled(s, P, PostLabels))

\* (?P<dev>...)?
Pep440Dev(s, P) == Maybe(P, Labelled(s, P, {"dev"}))

\* (?:[-_\.][a-z0-9]+)*
RECURSIVE LocalParts(_, _)
LocalParts(s, P) ==
    IF OneOrMore(s, One(s, P, IsSeparator), IsAlnum) \subseteq P THEN P
    ELSE LocalParts(s, P \cup OneOrMore(s, One(s, P, IsSeparator), IsAlnum))

\* (?:\+(?P<local>...))?
Pep440Local(s, P) == Maybe(P, LocalParts(s, OneOrMore(s, Word(s, P, "+"), IsAlnum)))

\* (?:(?P<epoch>[0-9]+)!)?
Pep440Epoch(s, P) == Maybe(P, Word(s, OneOrMore(s, P, IsDigit), "!"))

\* v?
OptionalV(s, P) == Maybe(P, Word(s, P, "v"))

\* PEP440_PATTERN from the start of the string.
PEP440_PATTERN(s) ==
    Pep440Local(s,
        Pep440Dev(s,
            Pep440Post(s,
                Pep440Pre(s,
                    Release(s, Pep440Epoch(s, OptionalV(s, {1})))))))

\* 0|[1-9]\d*
Numeric(s, P) == Word(s, P, "0") \cup Many(s, One(s, P, IsNonZeroDigit), IsDigit)

\* 0|[1-9]\d*|\d*[a-zA-Z-][0-9a-zA-Z-]*
PreReleaseIdentifier(s, P) ==
    Numeric(s, P) \cup Many(s, One(s, Many(s, P, IsDigit), IsLetterOrHyphen), IsAlnumOrHyphen)

\* (?:\.identifier)*
RECURSIVE MoreIdentifiers(_, _)
MoreIdentifiers(s, P) ==
    IF PreReleaseIdentifier(s, Word(s, P, ".")) \subseteq P THEN P
    ELSE MoreIdentifiers(s, P \cup PreReleaseIdentifier(s, Word(s, P, ".")))

\* (?:-(?P<prerelease>...))?
SemVerPreRelease(s, P) ==
    Maybe(P, MoreIdentifiers(s, PreReleaseIdentifier(s, Word(s, P, "-"))))

\* (?:\.[0-9a-zA-Z-]+)*
RECURSIVE MoreBuild(_, _)
MoreBuild(s, P) ==
    IF OneOrMore(s, Word(s, P, "."), IsAlnumOrHyphen) \subseteq P THEN P
    ELSE MoreBuild(s, P \cup OneOrMore(s, Word(s, P, "."), IsAlnumOrHyphen))

\* (?:\+(?P<buildmetadata>...))?
SemVerBuild(s, P) ==
    Maybe(P, MoreBuild(s, OneOrMore(s, Word(s, P, "+"), IsAlnumOrHyphen)))

\* SEMVER_PATTERN from the start of the string, up to the $.
SEMVER_PATTERN(s) ==
    SemVerBuild(s,
        SemVerPreRelease(s,
            Numeric(s, Word(s,
                Numeric(s, Word(s,
                    Numeric(s, OptionalV(s, {1})), ".")), "."))))

\* (?:-[a-zA-Z0-9]+)*
RECURSIVE MoreTags(_, _)
MoreTags(s, P) ==
    IF OneOrMore(s, Word(s, P, "-"), IsAlnum) \subseteq P THEN P
    ELSE MoreTags(s, P \cup OneOrMore(s, Word(s, P, "-"), IsAlnum))

\* (?P<tags>...)?
PvpTags(s, P) == Maybe(P, MoreTags(s, OneOrMore(s, Word(s, P, "-"), IsAlnum)))

\* [0-9]+(?:\.[0-9]+)+
PvpVersion(s, P) ==
    DotNumbers(s, OneOrMore(s, Word(s, OneOrMore(s, P, IsDigit), "."), IsDigit))

\* PVP_PATTERN from the start of the string, up to the $.
PVP_PATTERN(s) == PvpTags(s, PvpVersion(s, OptionalV(s, {1})))

\* _pep440_regex.match(v) is not None
is_valid_pep440(v) == PEP440_PATTERN(v) # {}

\* slip: the pattern is compiled without IGNORECASE.
IsValidSemverCaseSensitive(v) ==
    (\E p \in SEMVER_PATTERN(v) : AtEnd(v, p))
    /\ \A i \in 1..Len(v) : ~IsUpper(CharAt(v, i))

\* _semver_regex.match(v) is not None
is_valid_semver(v) == \E p \in SEMVER_PATTERN(v) : AtEnd(v, p)

\* _pvp_regex.match(v) is not None
is_valid_pvp(v) == \E p \in PVP_PATTERN(v) : AtEnd(v, p)

(***************************************************************************)
(* FormatParser: validate and detect.                                      *)
(***************************************************************************)
Grammars == <<"semver", "pep440", "pvp">>

validate(t, grammar) ==
    CASE grammar = "semver" -> is_valid_semver(t)
      [] grammar = "pep440" -> is_valid_pep440(t)
      [] grammar = "pvp" -> is_valid_pvp(t)

\* slip: the last grammar that accepts the text is taken.
RECURSIVE DetectTakesLast(_, _)
DetectTakesLast(t, i) ==
    IF i > Len(Grammars) THEN "UnrecognizedFormat"
    ELSE IF DetectTakesLast(t, i + 1) # "UnrecognizedFormat"
    THEN DetectTakesLast(t, i + 1)
    ELSE IF validate(t, Grammars[i]) THEN Grammars[i] ELSE "UnrecognizedFormat"

\* The first of Grammars[i..] that accepts the text.
RECURSIVE DetectFrom(_, _)
DetectFrom(t, i) ==
    IF i > Len(Grammars) THEN "UnrecognizedFormat"
    ELSE IF validate(t, Grammars[i]) THEN Grammars[i]
    ELSE DetectFrom(t, i + 1)

detect(t) == DetectFrom(t, 1)

\* The versions the draft lists by grammar.
pep_versions ==
    <<"1", "1.2", "42!2025.12.31a99.post123.dev456+deadbeef.abc123-zzz",
      "1!2.3.4rc5.post6.dev7+local.build.123", "v3.14.159a2.post1+git.abc123def",
      "0.1.0dev42+ubuntu.20.04", "0.1.0dev42+ubuntu.20-04", "1.2.3rc1", "1.2.3-c",
      "1.2.3.rc1", "1.2.3.rc1.post1", "1.2.3.rc1post1", "1.2.3.rc1-post1",
      "1.2.3.c-rev", "1.2.3.dev">>

semver_versions ==
    <<"1.2.3-alpha.1.beta.2+build.123.sha.abc123",
      "10.20.30-rc.1+build.456.commit.def789",
      "2.0.0-x.7.z.92+build.2023.12.31",
      "1.0.0-alpha-beta+beta.exp.sha.5114f85",
      "v1.2.3-alpha.1.beta.2+build.123.sha.abc123",
      "V1.2.3-alpha.1.beta.2+build.123.sha.abc123",
      "V1.2.3-alpha.1.beta.2----+build.123.sha.abc123">>

pvp_versions ==
    <<"1", "1.2", "1.2.3", "1.2.3.4", "1.2.3.4.5.6.7", "0.1", "10.20.30.40",
      "1.0-beta", "1.2.3-alpha", "1.0.2014-01-27", "2.1-rc-final", "v1.2.3",
      "v1.0-beta">>

(***************************************************************************)
(* FormatParser: parse.  The text is read from the left to the right, each *)
(* optional part taken when it is there; st is the reading so far: whether *)
(* it still fits, the position reached, the model read.                    *)
(***************************************************************************)
\* slip: b and beta are taken for alpha.
Pep440PreMapBetaAsAlpha ==
    [alpha |-> "a", a |-> "a", beta |-> "a", b |-> "a", rc |-> "rc", c |-> "rc",
     preview |-> "rc", pre |-> "rc"]

pep440_pre_map ==
    [alpha |-> "a", a |-> "a", beta |-> "b", b |-> "b", rc |-> "rc", c |-> "rc",
     preview |-> "rc", pre |-> "rc"]

pep440_post_map == [post |-> "post", rev |-> "post", r |-> "post"]

\* class PreReleaseLabel: the label of a normalized spelling.
PreReleaseLabel == [a |-> "Alpha", b |-> "Beta", rc |-> "RC"]

\* The labels in the order the pattern tries them.
PreLabelOrder == <<"alpha", "a", "beta", "b", "preview", "pre", "c", "rc">>

PostLabelOrder == <<"post", "rev", "r">>

Max(S) == CHOOSE x \in S : \A y \in S : y <= x

RECURSIVE LowerStr(_)
LowerStr(s) == IF s = "" THEN "" ELSE lower(CharAt(s, 1)) \o LowerStr(SubSeq(s, 2, Len(s)))

\* The end of the longest run of digits from p on.
DigitsEnd(s, p) == Max(Many(s, {p}, IsDigit))

HasWordAt(s, p, w) == Word(s, {p}, w) # {}

SkipSeparator(s, p) == IF p <= Len(s) /\ IsSeparator(CharAt(s, p)) THEN p + 1 ELSE p

\* The number at p, absent when no digit is there.
NumberAt(s, p) ==
    IF DigitsEnd(s, p) > p THEN Some(StrToInt(SubSeq(s, p, DigitsEnd(s, p) - 1)))
    ELSE None

\* The first label of L the text has at p: its index, 0 when none.
FirstLabel(s, p, L) ==
    IF \E i \in 1..Len(L) : HasWordAt(s, p, L[i])
    THEN CHOOSE i \in 1..Len(L) :
            /\ HasWordAt(s, p, L[i])
            /\ \A j \in 1..(i - 1) : ~HasWordAt(s, p, L[j])
    ELSE 0

NoLabel(p) == [found |-> FALSE, label |-> "", number |-> None, pos |-> p]

LabelNumber(s, label, p) ==
    [found |-> TRUE, label |-> label, number |-> NumberAt(s, p), pos |-> DigitsEnd(s, p)]

LabelFrom(s, p, q, L) ==
    IF FirstLabel(s, q, L) = 0 THEN NoLabel(p)
    ELSE LabelNumber(s, L[FirstLabel(s, q, L)],
                     SkipSeparator(s, q + Len(L[FirstLabel(s, q, L)])))

\* [-_\.]? label [-_\.]? [0-9]+? at p
LabelAt(s, p, L) == LabelFrom(s, p, SkipSeparator(s, p), L)

Unread == [ok |-> TRUE, pos |-> 1, m |-> CanonicalModel(None, 0, 0, 0, None, None, None)]

Misfit(st) == [st EXCEPT !.ok = FALSE]

\* v?
ReadV(s, st) == IF HasWordAt(s, st.pos, "v") THEN [st EXCEPT !.pos = @ + 1] ELSE st

\* epoch!
ReadEpoch(s, st) ==
    IF DigitsEnd(s, st.pos) > st.pos /\ HasWordAt(s, DigitsEnd(s, st.pos), "!")
    THEN [st EXCEPT !.m.epoch = NumberAt(s, st.pos), !.pos = DigitsEnd(s, st.pos) + 1]
    ELSE st

\* The numbers of N.N.N
RECURSIVE ReleaseNumbers(_)
ReleaseNumbers(s) ==
    IF DigitsEnd(s, 1) > Len(s) THEN <<StrToInt(s)>>
    ELSE <<StrToInt(SubSeq(s, 1, DigitsEnd(s, 1) - 1))>>
         \o ReleaseNumbers(SubSeq(s, DigitsEnd(s, 1) + 1, Len(s)))

WithRelease(st, release, pos) ==
    IF Len(release) > 3 THEN Misfit(st)
    ELSE [st EXCEPT !.pos = pos,
                    !.m.major = release[1],
                    !.m.minor = IF Len(release) > 1 THEN release[2] ELSE 0,
                    !.m.patch = IF Len(release) > 2 THEN release[3] ELSE 0]

\* The release segment: major, minor and patch, 0 when not given.
ReadRelease(s, st) ==
    IF ~st.ok \/ Release(s, {st.pos}) = {} THEN Misfit(st)
    ELSE WithRelease(st, ReleaseNumbers(SubSeq(s, st.pos, Max(Release(s, {st.pos})) - 1)),
                     Max(Release(s, {st.pos})))

WithPre(st, found) ==
    IF ~found.found THEN st
    ELSE [st EXCEPT !.pos = found.pos,
                    !.m.pre_release =
                        Some(PreRelease(PreReleaseLabel[pep440_pre_map[found.label]],
                                        found.number))]

ReadPre(s, st) == IF ~st.ok THEN st ELSE WithPre(st, LabelAt(s, st.pos, PreLabelOrder))

WithPost(st, found) ==
    IF ~found.found THEN st
    ELSE [st EXCEPT !.pos = found.pos, !.m.post = Some(ValueOr(found.number, 0))]

\* -N, or a post label
ReadPost(s, st) ==
    IF ~st.ok THEN st
    ELSE IF HasWordAt(s, st.pos, "-") /\ DigitsEnd(s, st.pos + 1) > st.pos + 1
    THEN [st EXCEPT !.pos = DigitsEnd(s, st.pos + 1), !.m.post = NumberAt(s, st.pos + 1)]
    ELSE WithPost(st, LabelAt(s, st.pos, PostLabelOrder))

WithDev(st, found) ==
    IF ~found.found THEN st
    ELSE [st EXCEPT !.pos = found.pos, !.m.dev = Some(ValueOr(found.number, 0))]

ReadDev(s, st) == IF ~st.ok THEN st ELSE WithDev(st, LabelAt(s, st.pos, <<"dev">>))

\* Nothing is left to read.
ReadEnd(s, st) == IF st.ok /\ st.pos = Len(s) + 1 THEN st ELSE Misfit(st)

parse_pep440(t) ==
    ReadEnd(t, ReadDev(t, ReadPost(t, ReadPre(t,
        ReadRelease(t, ReadEpoch(t, ReadV(t, Unread)))))))

\* The identifiers of a SemVer pre-release: a label and its number, post N, dev N,
\* epoch N.
RECURSIVE ReadIdentifiers(_, _, _)
ReadIdentifiers(ids, i, st) ==
    IF ~st.ok \/ i > Len(ids) THEN st
    ELSE IF LowerStr(ids[i]) \in DOMAIN pep440_pre_map
    THEN IF i < Len(ids) /\ AllDigits(ids[i + 1])
         THEN ReadIdentifiers(ids, i + 2,
                  [st EXCEPT !.m.pre_release =
                      Some(PreRelease(PreReleaseLabel[pep440_pre_map[LowerStr(ids[i])]],
                                      Some(StrToInt(ids[i + 1]))))])
         ELSE ReadIdentifiers(ids, i + 1,
                  [st EXCEPT !.m.pre_release =
                      Some(PreRelease(PreReleaseLabel[pep440_pre_map[LowerStr(ids[i])]],
                                      None))])
    ELSE IF LowerStr(ids[i]) \in {"post", "dev", "epoch"}
            /\ i < Len(ids) /\ AllDigits(ids[i + 1])
    THEN ReadIdentifiers(ids, i + 2,
             [st EXCEPT !.m[LowerStr(ids[i])] = Some(StrToInt(ids[i + 1]))])
    ELSE Misfit(st)

\* The pieces of s between the dots.
RECURSIVE SplitDots(_)
SplitDots(s) ==
    IF \A i \in 1..Len(s) : CharAt(s, i) # "."  THEN <<s>>
    ELSE <<SubSeq(s, 1, (CHOOSE i \in 1..Len(s) :
                            CharAt(s, i) = "." /\ \A j \in 1..(i - 1) : CharAt(s, j) # ".") - 1)>>
         \o SplitDots(SubSeq(s, (CHOOSE i \in 1..Len(s) :
                            CharAt(s, i) = "." /\ \A j \in 1..(i - 1) : CharAt(s, j) # ".") + 1,
                             Len(s)))

\* The end of the pre-release: before the + of the build metadata, or the end.
PreReleaseEnd(s) ==
    IF \E i \in 1..Len(s) : CharAt(s, i) = "+"
    THEN (CHOOSE i \in 1..Len(s) : CharAt(s, i) = "+" /\ \A j \in 1..(i - 1) : CharAt(s, j) # "+") - 1
    ELSE IF Len(s) > 0 /\ CharAt(s, Len(s)) = "\n" THEN Len(s) - 1
    ELSE Len(s)

\* -identifier.identifier...
ReadSemVerPre(s, st) ==
    IF ~st.ok \/ ~HasWordAt(s, st.pos, "-") THEN st
    ELSE ReadIdentifiers(SplitDots(SubSeq(s, st.pos + 1, PreReleaseEnd(s))), 1, st)

parse_semver(t) ==
    IF ~is_valid_semver(t) THEN Misfit(Unread)
    ELSE ReadSemVerPre(t, ReadRelease(t, ReadV(t, Unread)))

\* parse(text): under the grammar detect finds.
parse(t) ==
    CASE detect(t) = "semver" -> parse_semver(t)
      [] detect(t) = "pep440" -> parse_pep440(t)
      [] OTHER -> Misfit(Unread)

Rendering(st, output_format) ==
    IF ~st.ok THEN [returncode |-> 1, stdout |-> "", stderr |-> "UnrecognizedFormat"]
    ELSE [returncode |-> 0,
          stdout |-> (IF output_format = "pep440" THEN render_pep440(st.m)
                      ELSE render_semver(st.m)) \o "\n",
          stderr |-> ""]

(***************************************************************************)
(* The calls of the model: at most MaxFlags keyword arguments are set.     *)
(***************************************************************************)
Setting(name, value) == [name |-> name, value |-> value]

LabelNames == {FlowPreReleaseLabel[i] : i \in 1..Len(FlowPreReleaseLabel)}

Settings ==
    {Setting(f, PyInt(v)) : f \in NumericFields, v \in {0, MaxAmount}}
    \cup {Setting("pre_release_label", PyStr(l)) : l \in LabelNames}
    \cup {Setting(BumpOption(f), PyInt(v)) : f \in NumericFields, v \in 1..MaxAmount}
    \cup {Setting("bump_pre_release_label", PyStr(l)) : l \in LabelNames}
    \cup {Setting("bump_context", PyBool(TRUE)), Setting("no_bump_context", PyBool(TRUE))}

RECURSIVE UpTo(_, _)
UpTo(S, k) ==
    IF k = 0 THEN {{}}
    ELSE LET P == UpTo(S, k - 1) IN P \cup {p \cup {x} : p \in P, x \in S}

DistinctNames(S) == \A x, y \in S : x.name = y.name => x = y

KwargsOf(S) ==
    [k \in VersionKwargs |->
        IF \E x \in S : x.name = k THEN (CHOOSE x \in S : x.name = k).value ELSE PyNone]

\* The number of a pre-release is addressed only where the model has a pre-release:
\* neither the design nor the tests say which label a number without one goes under.
Addressable(input, S) ==
    (\E x \in S : x.name \in {"pre_release_num", "bump_pre_release_num"}) =>
        /\ IsSome(input.vars.pre_release)
        /\ \A x \in S : \A f \in NumericFields :
              x.name = BumpOption(f) =>
                  IndexOf(input.order, f) >= IndexOf(input.order, "pre_release_label")

Idle == [op |-> "none"]

\* What a zerv process finds: the repository's vars and schema, and standard input.
Environment ==
    [vars |-> zerv.vars, order |-> zerv.order, schema |-> zerv.schema, stdin |-> text]

\* What the engine holds when the command ends.
Held(result) == [vars |-> result.vars, order |-> result.order, schema |-> result.schema]

Tagged(major, minor, patch) == CanonicalModel(None, major, minor, patch, None, None, None)

InputModels ==
    { Tagged(1, 2, 3),
      CanonicalModel(None, 1, 2, 3, Some(PreRelease("RC", Some(1))), None, None),
      WithContext(CanonicalModel(Some(1), 1, 2, 3, Some(PreRelease("Alpha", None)),
                                 Some(4), Some(5)),
                  Some(5), Some(TRUE), Some("feature/test"), Some("abc123def"), Some(7)),
      WithContext(CanonicalModel(Some(0), 0, 0, 1, Some(PreRelease("Beta", Some(0))),
                                 Some(0), None),
                  Some(0), Some(FALSE), None, None, None) }

Orders == {StandardOrder, DevFirstOrder}

InitVersion ==
    /\ zerv \in {[vars |-> m, order |-> o, schema |-> SampleSchema] :
                   m \in InputModels, o \in Orders}
    /\ call = Idle
    /\ text = ""
    /\ schema = Idle
    /\ branch = Idle

\* One call of version() through the binding.
Version ==
    /\ call = Idle
    /\ \E S \in UpTo(Settings, MaxFlags) :
          /\ DistinctNames(S)
          /\ Addressable(zerv, S)
          /\ \E outcome \in {_run_zerv_command(Environment, version_args(KwargsOf(S)))} :
                /\ call' = [op |-> "version", kwargs |-> S,
                            args |-> version_args(KwargsOf(S)), before |-> zerv,
                            returncode |-> outcome.process.returncode,
                            raised |-> outcome.raised, value |-> outcome.value]
                /\ zerv' = Held(outcome.process)
    /\ UNCHANGED <<text, schema, branch>>

NextVersion == Version

SpecVersion == InitVersion /\ [][NextVersion]_vars

(***************************************************************************)
(* What the claims about a version() call speak of.                        *)
(***************************************************************************)
\* The keyword arguments a call sets.
Requested(S) == {x.name : x \in S}

\* The value a call gives a keyword argument.
Arg(k) == KwargsOf(call.kwargs)[k]

AllFields == {BumpType[i] : i \in 1..Len(BumpType)}

\* A field as the model holds it (the label and the number of an absent
\* pre_release are absent).
FieldState(m, f) ==
    CASE f = "epoch" -> m.epoch
      [] f = "major" -> Some(m.major)
      [] f = "minor" -> Some(m.minor)
      [] f = "patch" -> Some(m.patch)
      [] f = "post" -> m.post
      [] f = "dev" -> m.dev
      [] f = "pre_release_label" ->
            IF IsNone(m.pre_release) THEN None ELSE Some(m.pre_release[1].label)
      [] f = "pre_release_num" ->
            IF IsNone(m.pre_release) THEN None ELSE m.pre_release[1].number

\* The state a field of lower precedence than the bumped field f is left in.
StateAfterReset(g, f) ==
    CASE g \in {"major", "minor", "patch"} -> Some(0)
      [] g = "pre_release_num" -> (IF f = "pre_release_label" THEN Some(0) ELSE None)
      [] OTHER -> None

Higher(order, f) == {order[i] : i \in 1..(IndexOf(order, f) - 1)}
Lower(order, f) == {order[i] : i \in (IndexOf(order, f) + 1)..Len(order)}

ContextOf(m) == [f \in ContextFields |->
    CASE f = "distance" -> <<"distance", m.distance>>
      [] f = "dirty" -> <<"dirty", m.dirty>>
      [] f = "bumped_branch" -> <<"bumped_branch", m.bumped_branch>>
      [] f = "bumped_commit_hash" -> <<"bumped_commit_hash", m.bumped_commit_hash>>
      [] f = "bumped_timestamp" -> <<"bumped_timestamp", m.bumped_timestamp>>]

\* The flags a call passes, in the order of the flag list.
Given(S) == SelectSeq(VersionFlags(KwargsOf(S)), LAMBDA x : x.value.t # "none")

Reordered(seq) ==
    {[i \in 1..Len(seq) |-> seq[p[i]]] : p \in Permutations(1..Len(seq))}

\* The engine gives the same model for every order of the call's flags.
SameInEveryOrder ==
    \A flags \in Reordered(Given(call.kwargs)) :
        LET result == zerv_version(call.before, _extend_args(<<"version">>, flags))
        IN  result.returncode = call.returncode /\ result.vars = zerv.vars

C3_OverrideWinsOverBump ==
    (call.op = "version"
     /\ \E f \in AllFields : Requested(call.kwargs) = {f, BumpOption(f)}) =>
        LET f == CHOOSE g \in AllFields : Requested(call.kwargs) = {g, BumpOption(g)}
        IN  /\ call.returncode = 0
            /\ IF IsNumericField(f)
               THEN FieldState(zerv.vars, f) = Some(Arg(f).i)
               ELSE FieldState(zerv.vars, f) = Some(LabelOf(Arg(f).s))
            /\ SameInEveryOrder

\* An override of major to 0 with a bump of major, on a model whose major is 1.
C3_Witness ==
    /\ call.op = "version"
    /\ Requested(call.kwargs) = {"major", "bump_major"}
    /\ Arg("major").i = 0
    /\ call.before.vars.major = 1
    /\ zerv.vars.major = 0

\* C4: a bump of a field without bump_context leaves distance, dirty and the
\* bumped_* fields as they were; the same bump with bump_context resets them.
C4_BumpContextTogglesContextReset ==
    (call.op = "version" /\ call.returncode = 0) =>
        \A f \in AllFields :
            /\ Requested(call.kwargs) \in {{BumpOption(f)}, {BumpOption(f), "no_bump_context"}}
                  => ContextOf(zerv.vars) = ContextOf(call.before.vars)
            /\ Requested(call.kwargs) = {BumpOption(f), "bump_context"}
                  => ContextOf(zerv.vars) = ContextOf(ResetContext(call.before.vars))

\* A bump of major with bump_context on a model that carries a context.
C4_Witness ==
    /\ call.op = "version"
    /\ Requested(call.kwargs) = {"bump_major", "bump_context"}
    /\ call.before.vars.distance = Some(5)
    /\ call.before.vars.dirty = Some(TRUE)
    /\ zerv.vars.distance = None
    /\ zerv.vars.dirty = None
    /\ zerv.vars.bumped_branch = None

\* The label one step on along Alpha, Beta, RC.
NextLabel(label) == IF label = "Alpha" THEN "Beta" ELSE "RC"

OptionalFields == {"epoch", "pre_release", "post", "dev", "distance", "dirty",
                   "bumped_branch", "bumped_commit_hash", "bumped_timestamp",
                   "last_branch", "last_commit_hash", "last_timestamp",
                   "last_tag_version"}

\* The present value of a field that is zero, false, empty or without a number.
Zero(f) ==
    CASE f \in IntFields -> Some(0)
      [] f \in StrFields -> Some("")
      [] f = "dirty" -> Some(FALSE)
      [] f = "pre_release" -> Some(PreRelease("Alpha", None))

\* The vars of the sample payload.
SampleVars ==
    [WithContext(Tagged(1, 2, 3), Some(5), Some(TRUE), Some("feature/test"),
                 Some("abc123def"), Some(1234567890))
        EXCEPT !.last_commit_hash = Some("abc123def456"),
               !.last_timestamp = Some(1234567890),
               !.last_tag_version = Some("v1.2.3")]

\* The models of InputModels, the sample's, and for every optional field a model
\* that has it present and zero, all the others absent.
PayloadModels ==
    InputModels \cup {SampleVars}
    \cup {[Tagged(0, 0, 0) EXCEPT ![f] = Zero(f)] : f \in OptionalFields}
    \cup {CanonicalModel(None, 1, 0, 0, Some(PreRelease("RC", Some(0))), None, None)}

SegmentOrders ==
    {<<"Core", "ExtraCore", "Build">>, <<"Core", "Build", "ExtraCore">>,
     <<"ExtraCore", "Core", "Build">>, <<"ExtraCore", "Build", "Core">>,
     <<"Build", "Core", "ExtraCore">>, <<"Build", "ExtraCore", "Core">>}

\* Precedence orders a payload may come with.
PrecedenceOrders ==
    SegmentOrders
    \cup {SampleSchema.precedence_order,
          <<"Epoch", "Major", "Minor", "Patch", "Core", "PreReleaseLabel",
            "PreReleaseNum", "Post", "Dev", "ExtraCore", "Build">>,
          <<"Core", "Build">>,
          <<>>,
          <<"Core", "Core", "Build">>,
          <<"Core", "ExtraCore", "Build", "Build">>,
          <<"Major", "Minor", "Major", "Build">>,
          <<"Core", "ExtraCore", "Flavor">>,
          <<"Core", "ExtraCore", "Build", "Flavor">>}

\* The segments a payload may come with: the sample's, and ones that refer to a
\* field the canonical model does not have.
SegmentCases ==
    {[core |-> SampleSchema.core, extra_core |-> <<>>, build |-> SampleSchema.build],
     [core |-> SampleSchema.core, extra_core |-> <<"PreRelease", "Post", "Dev">>,
      build |-> <<>>],
     [core |-> <<"Major", "Minor", "Flavor">>, extra_core |-> <<>>,
      build |-> SampleSchema.build],
     [core |-> SampleSchema.core, extra_core |-> <<>>, build |-> <<"Flavor">>]}

SchemaCases ==
    {Schema(g.core, g.extra_core, g.build, o) : g \in SegmentCases, o \in PrecedenceOrders}

\* What the caller may put at standard input.
Payloads ==
    {SAMPLE_ZERV_INPUT, "", "(schema: (), vars: ())"}
    \cup {serialize(s, Tagged(1, 2, 3)) : s \in SchemaCases}

\* The schemas the repository side resolves: valid ones.
ResolvedSchemas ==
    {SampleSchema,
     Schema(SampleSchema.core, <<"PreRelease", "Post", "Dev">>, SampleSchema.build,
            <<"Core", "ExtraCore", "Build">>)}

\* The keyword arguments of the reading call, next to source="stdin".
StdinSettings ==
    {Setting("output_format", PyStr(f)) : f \in OutputFormats}
    \cup {Setting("bump_major", PyInt(1))}

\* The model checked out in the repository of the payload cases.
InitSchema ==
    /\ zerv = [vars |-> Tagged(1, 2, 3), order |-> StandardOrder, schema |-> SampleSchema]
    /\ call = Idle
    /\ text = ""
    /\ schema = Idle
    /\ branch = Idle

InitPipe ==
    /\ zerv \in {[vars |-> m, order |-> StandardOrder, schema |-> s] :
                   m \in PayloadModels, s \in ResolvedSchemas}
    /\ call = Idle
    /\ text = ""
    /\ schema = Idle
    /\ branch = Idle

\* version(output_format="zerv")
Emit ==
    /\ call = Idle
    /\ \E S \in {{Setting("output_format", PyStr("zerv"))}} :
       \E outcome \in {_run_zerv_command(Environment, version_args(KwargsOf(S)))} :
          /\ call' = [op |-> "emit", kwargs |-> S, args |-> version_args(KwargsOf(S)),
                      before |-> zerv, returncode |-> outcome.process.returncode,
                      raised |-> outcome.raised, value |-> outcome.value]
          /\ zerv' = Held(outcome.process)
    /\ UNCHANGED <<text, schema, branch>>

\* The value the first call returned becomes the standard input of the next.
Pipe ==
    /\ call.op = "emit"
    /\ ~call.raised
    /\ text' = call.value
    /\ call' = [op |-> "pipe"]
    /\ UNCHANGED <<zerv, schema, branch>>

\* The caller puts a payload at standard input.
Feed ==
    /\ call = Idle
    /\ text' \in Payloads
    /\ call' = [op |-> "feed"]
    /\ UNCHANGED <<zerv, schema, branch>>

\* version(source="stdin", ...)
VersionStdin ==
    /\ call.op \in {"pipe", "feed"}
    /\ \E S \in {T \cup {Setting("source", PyStr("stdin"))} : T \in UpTo(StdinSettings, 1)} :
       \E outcome \in {_run_zerv_command(Environment, version_args(KwargsOf(S)))} :
          /\ call' = [op |-> "stdin", from |-> call.op, kwargs |-> S,
                      args |-> version_args(KwargsOf(S)), before |-> zerv,
                      stdin |-> text, returncode |-> outcome.process.returncode,
                      stdout |-> outcome.process.stdout,
                      raised |-> outcome.raised, value |-> outcome.value]
          /\ zerv' = Held(outcome.process)
    /\ UNCHANGED <<text, schema, branch>>

NextPipe == Emit \/ Pipe \/ VersionStdin

SpecPipe == InitPipe /\ [][NextPipe]_vars

NextSchema == Feed \/ VersionStdin

SpecSchema == InitSchema /\ [][NextSchema]_vars

(***************************************************************************)
(* C6                                                                      *)
(***************************************************************************)
\* What version() returns for the model m in the format the call names.
Rendered(m, s, S) ==
    LET given == {x \in S : x.name = "output_format"}
        format == IF given = {} THEN "semver" ELSE (CHOOSE x \in given : TRUE).value.s
    IN  strip(CASE format = "pep440" -> render_pep440(m)
                [] format = "zerv" -> serialize(s, m)
                [] OTHER -> render_semver(m))

Contains(s, part) ==
    \E i \in 1..(Len(s) - Len(part) + 1) : SubSeq(s, i, i + Len(part) - 1) = part

\* The call read a well-formed payload the caller had put at standard input.
ReadFedPayload == call.op = "stdin" /\ call.from = "feed" /\ deserialize(call.stdin).ok

FedSchema == deserialize(call.stdin).schema

SegmentFields(s) == Elements(s.core \o s.extra_core \o s.build)

\* The call was refused and nothing was rendered or bumped.
RefusedBeforeUse ==
    /\ call.raised
    /\ call.returncode # 0
    /\ call.stdout = ""
    /\ zerv = call.before

RenderTexts ==
    {"1.2.3-alpha.1", "1.2.3a1", "1.2.3-beta.2", "1.2.3b2", "1.2.3-rc.3", "1.2.3rc3",
     "1.2.3-post.1", "1.2.3.post1", "1.2.3"}

\* Strings around the edges of the grammars.
EdgeTexts ==
    {"", "abc", "v", "1.2.3\n", "x1.2.3", "1.2.3 ", "01.2.3", "1.02.3", "1..2", ".1",
     "-1", "vv1", "V1", "1.2.3-", "1.2.3+", "1.2.3-01", "1.2.3.4-x", "1!1.2.3", "!1",
     "1.2-3", "1.2.3-4", "1.2.3_dev", "1.2.3+a.b", "1.2.3+a..b", "1.2.3-a..b",
     "1.2\n", "1.2\n\n", "1.2.3.RC1", "1.2.3-ALPHA", "1.2.x"}

Texts ==
    Elements(pep_versions) \cup Elements(semver_versions) \cup Elements(pvp_versions)
    \cup RenderTexts \cup EdgeTexts

InitDetect ==
    /\ text \in Texts
    /\ call = Idle
    /\ zerv = Idle
    /\ schema = Idle
    /\ branch = Idle

\* detect(text)
Detect ==
    /\ call = Idle
    /\ call' = [op |-> "detect", grammar |-> detect(text)]
    /\ UNCHANGED <<zerv, text, schema, branch>>

\* validate(text, grammar)
Validate ==
    /\ call = Idle
    /\ \E i \in 1..Len(Grammars) :
          call' = [op |-> "validate", grammar |-> Grammars[i],
                   valid |-> validate(text, Grammars[i])]
    /\ UNCHANGED <<zerv, text, schema, branch>>

NextDetect == Detect \/ Validate

SpecDetect == InitDetect /\ [][NextDetect]_vars

(***************************************************************************)
(* C8                                                                      *)
(***************************************************************************)
\* C8: detect returns the first of SemVer, PEP 440, PVP whose validator accepts
\* the text, and UnrecognizedFormat when none does; 1.2.3 is accepted by all three
\* and detected as SemVer, and so is every version the draft lists as SemVer.
C8_DetectTakesFirstAccepted ==
    call.op = "detect" =>
        /\ is_valid_semver(text) => call.grammar = "semver"
        /\ (~is_valid_semver(text) /\ is_valid_pep440(text)) => call.grammar = "pep440"
        /\ (~is_valid_semver(text) /\ ~is_valid_pep440(text) /\ is_valid_pvp(text))
              => call.grammar = "pvp"
        /\ (~is_valid_semver(text) /\ ~is_valid_pep440(text) /\ ~is_valid_pvp(text))
              => call.grammar = "UnrecognizedFormat"
        /\ text = "1.2.3" =>
              /\ is_valid_semver(text) /\ is_valid_pep440(text) /\ is_valid_pvp(text)
              /\ call.grammar = "semver"
        /\ text \in Elements(semver_versions) => call.grammar = "semver"
        /\ text \in {"", "abc", "x1.2.3"} => call.grammar = "UnrecognizedFormat"

\* 1.2.3, which all three validators accept, detected.
C8_Witness ==
    /\ call.op = "detect"
    /\ text = "1.2.3"
    /\ is_valid_pep440(text)
    /\ is_valid_pvp(text)
    /\ call.grammar = "semver"

(***************************************************************************)
(* render: versions of every base X.Y.Z, plain and with each pre-release   *)
(* label or a post number n, in both grammars, rendered in either format.  *)
(***************************************************************************)
MaxPart == 1

MaxNumber == 3

Parts == 0..MaxPart

Numbers == 0..MaxNumber \cup {12}

Bases ==
    {IntToStr(x) \o "." \o IntToStr(y) \o "." \o IntToStr(z) :
        x \in Parts, y \in Parts, z \in Parts}
    \cup {"1.2.3", "10.20.30"}

\* The cases of test_render_format_conversion.
test_render_format_conversion ==
    {<<"1.2.3", "pep440", "1.2.3">>,
     <<"1.2.3-alpha.1", "pep440", "1.2.3a1">>,
     <<"1.2.3-beta.2", "pep440", "1.2.3b2">>,
     <<"1.2.3-rc.3", "pep440", "1.2.3rc3">>,
     <<"1.2.3-post.1", "pep440", "1.2.3.post1">>,
     <<"1.2.3a1", "semver", "1.2.3-alpha.1">>,
     <<"1.2.3b2", "semver", "1.2.3-beta.2">>,
     <<"1.2.3rc3", "semver", "1.2.3-rc.3">>,
     <<"1.2.3.post1", "semver", "1.2.3-post.1">>}

SemVerText(base, word, n) == base \o "-" \o word \o "." \o IntToStr(n)

Pep440Text(base, word, n) == base \o word \o IntToStr(n)

SemVerWords == {"alpha", "beta", "rc", "post"}

Pep440Words == {"a", "b", "rc", ".post"}

Versions ==
    Bases
    \cup {SemVerText(base, word, n) : base \in Bases, word \in SemVerWords, n \in Numbers}
    \cup {Pep440Text(base, word, n) : base \in Bases, word \in Pep440Words, n \in Numbers}
    \cup {row[1] : row \in test_render_format_conversion}

\* render(version, output_format=...): the argument list handed to the binary.
render_args(version, output_format) ==
    _extend_args(<<"render", version>>, <<Flag("--output-format", output_format)>>)

\* The value that follows the flag in the argument list.
FlagValue(args, flag) ==
    IF \E i \in 1..(Len(args) - 1) : args[i] = flag
    THEN Some(args[(CHOOSE i \in 1..(Len(args) - 1) : args[i] = flag) + 1])
    ELSE None

RenderOptions == {"--output-format", "--output-template", "--output-prefix"}

\* The active schema of a version that was parsed from text: its version fields.
VersionSchema ==
    Schema(<<"Major", "Minor", "Patch">>, <<"Epoch", "PreRelease", "Post", "Dev">>, <<>>,
           <<"Core", "ExtraCore", "Build">>)

\* The arguments from the i-th on are options of the command, each with its value.
WellFormed(args, i, options) ==
    /\ (Len(args) - i + 1) % 2 = 0
    /\ \A k \in i..Len(args) : (k - i) % 2 = 0 => args[k] \in options
    /\ IsSome(FlagValue(args, "--output-format"))
          => FlagValue(args, "--output-format")[1] \in {"semver", "pep440"}

Templated(st, template) ==
    IF ~st.ok THEN Rendering(st, "semver")
    ELSE IF ~TemplateFits(template, VersionSchema)
    THEN [returncode |-> 1, stdout |-> "", stderr |-> "SchemaFieldMissing"]
    ELSE [returncode |-> 0, stdout |-> render_template(template, st.m) \o "\n",
          stderr |-> ""]

\* The prefix is put before what was rendered.
Prefixed(result, prefix) ==
    IF result.returncode # 0 THEN result
    ELSE [result EXCEPT !.stdout = ValueOr(prefix, "") \o @]

RenderingWith(st, output_format, template, prefix) ==
    Prefixed(IF IsSome(template) THEN Templated(st, template[1])
             ELSE Rendering(st, ValueOr(output_format, "semver")),
             prefix)

\* `zerv render`: the version, the output format, semver when not given, or the
\* template, and the prefix.
zerv_render(args) ==
    IF Len(args) < 2 \/ args[1] # "render" \/ ~WellFormed(args, 3, RenderOptions)
    THEN [returncode |-> 2, stdout |-> "", stderr |-> "usage"]
    ELSE RenderingWith(parse(args[2]), FlagValue(args, "--output-format"),
                       FlagValue(args, "--output-template"),
                       FlagValue(args, "--output-prefix"))

\* render(version, output_template=..., output_prefix=...)
render_with(version, output_format, output_template, output_prefix) ==
    Completed(zerv_render(
        _extend_args(<<"render", version>>,
                     <<Flag("--output-format", output_format),
                       Flag("--output-template", output_template),
                       Flag("--output-prefix", output_prefix)>>)))

render(version, output_format) == Completed(zerv_render(render_args(version, output_format)))

InitRender ==
    /\ text \in Versions
    /\ call = Idle
    /\ zerv = Idle
    /\ schema = Idle
    /\ branch = Idle

\* render(text, output_format=...)
Render ==
    /\ call = Idle
    /\ \E output_format \in {PyNone, PyStr("semver"), PyStr("pep440")} :
          \E outcome \in {render(text, output_format)} :
             call' = [op |-> "render", version |-> text,
                      output_format |-> output_format,
                      args |-> render_args(text, output_format),
                      raised |-> outcome.raised, value |-> outcome.value]
    /\ UNCHANGED <<zerv, text, schema, branch>>

NextRender == Render

SpecRender == InitRender /\ [][NextRender]_vars

(***************************************************************************)
(* C9                                                                      *)
(***************************************************************************)
\* The table of the two grammars: the SemVer word and the PEP 440 word.
ConversionTable ==
    {<<"alpha", "a">>, <<"beta", "b">>, <<"rc", "rc">>, <<"post", ".post">>}

RenderedAs(value) == ~call.raised /\ call.value = value

\* C9: for every base X.Y.Z and number n, SemVer -alpha.n / -beta.n / -rc.n /
\* -post.n renders in PEP 440 as an / bn / rcn / .postn, the PEP 440 forms render
\* in SemVer as the SemVer forms, and a plain X.Y.Z renders as itself in both.
C9_RenderConvertsByFixedTable ==
    call.op = "render" =>
        /\ \A base \in Bases, n \in Numbers, row \in ConversionTable :
              /\ (/\ call.version = SemVerText(base, row[1], n)
                  /\ call.output_format = PyStr("pep440"))
                    => RenderedAs(Pep440Text(base, row[2], n))
              /\ (/\ call.version = Pep440Text(base, row[2], n)
                  /\ call.output_format \in {PyNone, PyStr("semver")})
                    => RenderedAs(SemVerText(base, row[1], n))
        /\ call.version \in Bases => RenderedAs(call.version)
        /\ \A row \in test_render_format_conversion :
              (call.version = row[1] /\ call.output_format = PyStr(row[2]))
                 => RenderedAs(row[3])

\* A SemVer beta with a number of two digits rendered in PEP 440, and the PEP 440
\* form of it rendered in SemVer.
C9_Witness ==
    /\ call.op = "render"
    /\ \/ /\ call.version = "10.20.30-beta.12"
          /\ call.output_format = PyStr("pep440")
          /\ call.value = "10.20.30b12"
       \/ /\ call.version = "10.20.30b12"
          /\ call.output_format = PyStr("semver")
          /\ call.value = "10.20.30-beta.12"

(***************************************************************************)
(* GitFlowResolver: the branch rules.  A rule is a pattern, literal or a   *)
(* glob with *, and the action it selects: a schema preset, a pre-release  *)
(* label, a post mode.                                                     *)
(***************************************************************************)
FlowOptions == <<
    <<"-C", "repo_path">>,
    <<"-s", "source">>,
    <<"-v", "verbose">>,
    <<"-f", "input_format">>,
    <<"--output-format", "output_format">>,
    <<"--output-template", "output_template">>,
    <<"--output-prefix", "output_prefix">>,
    <<"--pre-release-label", "pre_release_label">>,
    <<"--pre-release-num", "pre_release_num">>,
    <<"--post-mode", "post_mode">>,
    <<"--branch-rules", "branch_rules">>,
    <<"--tag-version", "tag_version">>,
    <<"--distance", "distance">>,
    <<"--dirty", "dirty">>,
    <<"--no-dirty", "no_dirty">>,
    <<"--clean", "clean">>,
    <<"--bumped-branch", "bumped_branch">>,
    <<"--bumped-commit-hash", "bumped_commit_hash">>,
    <<"--bumped-timestamp", "bumped_timestamp">>,
    <<"--major", "major">>,
    <<"--minor", "minor">>,
    <<"--patch", "patch">>,
    <<"--epoch", "epoch">>,
    <<"--post", "post">>,
    <<"--hash-branch-len", "hash_branch_len">>,
    <<"--schema", "schema">>,
    <<"--schema-ron", "schema_ron">> >>

FlowKwargs == {FlowOptions[i][2] : i \in 1..Len(FlowOptions)}

\* Every keyword argument of flow() defaults to None.
FlowDefaults == [k \in FlowKwargs |-> PyNone]

\* slip: the branch rules are left out of the flags.
FlowFlagsWithoutRules(kwargs) ==
    [i \in 1..Len(FlowOptions) |->
        Flag(FlowOptions[i][1],
             IF FlowOptions[i][2] = "branch_rules" THEN PyNone
             ELSE kwargs[FlowOptions[i][2]])]

\* The `flags` list flow() builds from its keyword arguments.
FlowFlags(kwargs) ==
    [i \in 1..Len(FlowOptions) |-> Flag(FlowOptions[i][1], kwargs[FlowOptions[i][2]])]

\* slip: the flags are not handed on.
FlowArgsWithoutFlags(kwargs) == <<"flow">>

\* flow(**kwargs): the argument list handed to the binary.
flow_args(kwargs) == _extend_args(<<"flow">>, FlowFlags(kwargs))

FlowPostMode == <<"tag", "commit">>

Action(preset, pre_release_label, post_mode) ==
    [schema |-> preset, pre_release_label |-> pre_release_label, post_mode |-> post_mode]

Rule(pattern, action) == [pattern |-> pattern, action |-> action]

\* The action of no rule: the standard schema, no pre-release.
DefaultAction == Action("standard", None, None)

\* The positions of name the pattern from its i-th character on can reach from P.
RECURSIVE Glob(_, _, _, _)
Glob(pattern, i, name, P) ==
    IF i > Len(pattern) \/ P = {} THEN P
    ELSE IF CharAt(pattern, i) = "*"
    THEN Glob(pattern, i + 1, name, {q \in 1..(Len(name) + 1) : \E p \in P : p <= q})
    ELSE Glob(pattern, i + 1, name,
              {p + 1 : p \in {q \in P : q <= Len(name) /\ CharAt(name, q) = CharAt(pattern, i)}})

\* The pattern matches the whole branch name.
Matches(pattern, name) == (Len(name) + 1) \in Glob(pattern, 1, name, {1})

\* slip: the last matching rule.
LastMatch(rules, name) ==
    IF \E i \in 1..Len(rules) : Matches(rules[i].pattern, name)
    THEN CHOOSE i \in 1..Len(rules) :
            /\ Matches(rules[i].pattern, name)
            /\ \A j \in (i + 1)..Len(rules) : ~Matches(rules[j].pattern, name)
    ELSE 0

\* The first rule in list order whose pattern matches: its index, 0 when none.
FirstMatch(rules, name) ==
    IF \E i \in 1..Len(rules) : Matches(rules[i].pattern, name)
    THEN CHOOSE i \in 1..Len(rules) :
            /\ Matches(rules[i].pattern, name)
            /\ \A j \in 1..(i - 1) : ~Matches(rules[j].pattern, name)
    ELSE 0

branch_action(rules, name) ==
    IF FirstMatch(rules, name) = 0 THEN DefaultAction
    ELSE rules[FirstMatch(rules, name)].action

\* The text of the branch rules: a list of structs.
SerializeRule(rule) ==
    "(pattern: " \o Quote \o rule.pattern \o Quote
    \o ", schema: " \o Quote \o rule.action.schema \o Quote
    \o ", pre_release_label: " \o OptStr(rule.action.pre_release_label)
    \o ", post_mode: " \o OptStr(rule.action.post_mode) \o ")"

SerializeRules(rules) ==
    SerializeList([i \in 1..Len(rules) |-> SerializeRule(rules[i])])

RuleFields == {"pattern", "schema", "pre_release_label", "post_mode"}

IsQuoted(v) ==
    /\ Wrapped(v, Quote, Quote)
    /\ \A i \in 2..(Len(v) - 1) : CharAt(v, i) # Quote

IsRule(st) ==
    /\ HasFields(st, RuleFields)
    /\ IsQuoted(Field(st, "pattern"))
    /\ IsQuoted(Field(st, "schema"))
    /\ Inner(Field(st, "schema"), Quote, Quote) \in Elements(StandardSchema)
    /\ IsOptStr(Field(st, "pre_release_label"))
    /\ ReadOptStr(Field(st, "pre_release_label"))
          \in {None} \cup {Some(l) : l \in Elements(FlowPreReleaseLabel)}
    /\ IsOptStr(Field(st, "post_mode"))
    /\ ReadOptStr(Field(st, "post_mode"))
          \in {None} \cup {Some(p) : p \in Elements(FlowPostMode)}

ReadRule(st) ==
    Rule(Inner(Field(st, "pattern"), Quote, Quote),
         Action(Inner(Field(st, "schema"), Quote, Quote),
                ReadOptStr(Field(st, "pre_release_label")),
                ReadOptStr(Field(st, "post_mode"))))

NoRules == [ok |-> TRUE, rules |-> <<>>]

RulesOf(items) ==
    IF \A i \in 1..Len(items) : IsRule(Struct(items[i]))
    THEN [ok |-> TRUE, rules |-> [i \in 1..Len(items) |-> ReadRule(Struct(items[i]))]]
    ELSE [ok |-> FALSE, rules |-> <<>>]

ReadRules(rules_text) ==
    IF ~IsList(rules_text) THEN [ok |-> FALSE, rules |-> <<>>]
    ELSE IF strip(Inner(rules_text, "[", "]")) = "" THEN NoRules
    ELSE RulesOf(ListItems(rules_text))

\* The facts of the repository: tag v1.2.3, 5 commits ahead, a clean tree.
Repository(head) ==
    [last_tag_version |-> "v1.2.3", distance |-> 5, dirty |-> FALSE, last_branch |-> head]

WithLabel(m, label) ==
    IF IsNone(label) THEN m
    ELSE [m EXCEPT !.pre_release =
              Some(PreRelease(PreReleaseLabel[pep440_pre_map[label[1]]], None))]

Resolution(repository, name, action) ==
    [returncode |-> 0,
     stdout |-> render_semver(WithLabel(parse(repository.last_tag_version).m,
                                        action.pre_release_label)) \o "\n",
     stderr |-> "",
     last_tag_version |-> repository.last_tag_version,
     distance |-> repository.distance,
     dirty |-> repository.dirty,
     branch |-> name,
     action |-> action]

Unresolved(repository, returncode, stderr) ==
    [returncode |-> returncode, stdout |-> "", stderr |-> stderr,
     last_tag_version |-> repository.last_tag_version,
     distance |-> repository.distance,
     dirty |-> repository.dirty,
     branch |-> repository.last_branch,
     action |-> DefaultAction]

Resolve(repository, name, read) ==
    IF ~read.ok THEN Unresolved(repository, 1, "invalid branch rules")
    ELSE Resolution(repository, name, branch_action(read.rules, name))

\* `zerv flow`: the branch is that of HEAD or the caller's override, the rules
\* those given, none when none is given.
zerv_flow(repository, args) ==
    IF Len(args) = 0 \/ args[1] # "flow" THEN Unresolved(repository, 2, "usage")
    ELSE Resolve(repository,
                 ValueOr(FlagValue(args, "--bumped-branch"), repository.last_branch),
                 IF IsNone(FlagValue(args, "--branch-rules")) THEN NoRules
                 ELSE ReadRules(strip(FlagValue(args, "--branch-rules")[1])))

flow(repository, kwargs) == Completed(zerv_flow(repository, flow_args(kwargs)))

(***************************************************************************)
(* flow: at most MaxRules rules, on each branch.                           *)
(***************************************************************************)
MaxRules == 2

Branches == {"main", "develop", "release/1.0", "release"}

Patterns == {"develop", "release/*", "release/1.0", "*"}

Actions ==
    {Action("standard", Some("rc"), Some("tag")),
     Action("standard-base", Some("beta"), Some("commit"))}

Rules == {Rule(p, a) : p \in Patterns, a \in Actions}

RuleLists == UNION {[1..n -> Rules] : n \in 0..MaxRules}

FlowKwargsOf(rules, override) ==
    [FlowDefaults EXCEPT !["branch_rules"] = rules, !["bumped_branch"] = override]

InitFlow ==
    /\ branch \in Branches
    /\ call = Idle
    /\ zerv = Idle
    /\ text = ""
    /\ schema = Idle

\* flow(branch_rules=..., bumped_branch=...)
Flow ==
    /\ call = Idle
    /\ \E rules \in RuleLists, override \in {PyNone, PyStr("develop")} :
       \E given \in {PyNone, PyStr(SerializeRules(rules))} :
          /\ (given = PyNone => rules = <<>>)
          /\ \E outcome \in {flow(Repository(branch), FlowKwargsOf(given, override))} :
                call' = [op |-> "flow", branch_rules |-> rules,
                         name |-> IF override = PyNone THEN branch ELSE override.s,
                         args |-> flow_args(FlowKwargsOf(given, override)),
                         raised |-> outcome.raised, value |-> outcome.value,
                         resolution |-> outcome.process]
    /\ UNCHANGED <<zerv, text, schema, branch>>

NextFlow == Flow

SpecFlow == InitFlow /\ [][NextFlow]_vars

(***************************************************************************)
(* C10                                                                     *)
(***************************************************************************)
\* C10: flow applies the action of the first rule in list order whose pattern
\* matches the branch, whatever later rules match, and with no matching rule the
\* default action: schema standard, no pre-release.
C10_FirstMatchingRuleWins ==
    call.op = "flow" =>
        /\ ~call.raised
        /\ call.resolution.branch = call.name
        /\ \A i \in 1..Len(call.branch_rules) :
              (/\ Matches(call.branch_rules[i].pattern, call.name)
               /\ \A j \in 1..(i - 1) : ~Matches(call.branch_rules[j].pattern, call.name))
                 => call.resolution.action = call.branch_rules[i].action
        /\ (\A i \in 1..Len(call.branch_rules) :
               ~Matches(call.branch_rules[i].pattern, call.name))
              => /\ call.resolution.action.schema = "standard"
                 /\ call.resolution.action.pre_release_label = None
                 /\ call.value = "1.2.3"
        /\ (/\ call.name = "release/1.0"
            /\ call.branch_rules =
                  <<Rule("release/*", Action("standard", Some("rc"), Some("tag"))),
                    Rule("*", Action("standard-base", Some("beta"), Some("commit")))>>)
              => /\ call.resolution.action = Action("standard", Some("rc"), Some("tag"))
                 /\ call.value = "1.2.3-rc"
        /\ (/\ call.name = "main"
            /\ call.branch_rules =
                  <<Rule("release/*", Action("standard", Some("rc"), Some("tag"))),
                    Rule("develop", Action("standard-base", Some("beta"), Some("commit")))>>)
              => call.resolution.action = DefaultAction

\* Two rules that both match the branch, with different actions: the action of
\* the first is applied.
C10_Witness ==
    /\ call.op = "flow"
    /\ Len(call.branch_rules) = 2
    /\ Matches(call.branch_rules[1].pattern, call.name)
    /\ Matches(call.branch_rules[2].pattern, call.name)
    /\ call.branch_rules[1].action # call.branch_rules[2].action
    /\ call.resolution.action = call.branch_rules[1].action

(***************************************************************************)
(* GitFlowResolver: the repository.  The facts are whether repo_path is    *)
(* inside a working repository and the tags reachable from HEAD, nearest   *)
(* first.                                                                  *)
(***************************************************************************)
MaxTags == 2

TagNames == {"v1.2.3", "2.0.0a1", "nightly", "latest"}

TagLists == UNION {[1..n -> TagNames] : n \in 0..MaxTags}

Facts(repository, tags, head) == [repository |-> repository, tags |-> tags, head |-> head]

\* The tag names that parse under a supported grammar.
ParsedTags(tags) == SelectSeq(tags, LAMBDA t : parse(t).ok)

\* The base version of no tag: epoch zero.
EpochZero == "0.0.0"

\* last_tag_version: the nearest tag that parses; with none, the caller's default
\* or the epoch-zero base.
LastTagVersion(tags, default) ==
    IF ParsedTags(tags) # <<>> THEN ParsedTags(tags)[1]
    ELSE ValueOr(default, EpochZero)

Condition(tags) == IF ParsedTags(tags) = <<>> THEN "NoTagFound" ELSE ""

WithCondition(result, condition) ==
    [returncode |-> result.returncode, stdout |-> result.stdout, stderr |-> result.stderr,
     condition |-> condition, last_tag_version |-> result.last_tag_version]

NoRepository ==
    [returncode |-> 1, stdout |-> "", stderr |-> "NoRepository", condition |-> "",
     last_tag_version |-> ""]

\* `zerv flow` in the working directory: fatal outside a repository, and with no
\* tag that parses a version all the same.
zerv_flow_in(facts, args) ==
    IF ~facts.repository THEN NoRepository
    ELSE WithCondition(
            zerv_flow([last_tag_version |->
                           LastTagVersion(facts.tags, FlagValue(args, "--tag-version")),
                       distance |-> 0, dirty |-> FALSE,
                       last_branch |-> facts.head],
                      args),
            Condition(facts.tags))

flow_in(facts, kwargs) == Completed(zerv_flow_in(facts, flow_args(kwargs)))

TagDefaults == {PyNone, PyStr("v0.9.0")}

InitResolve ==
    /\ zerv \in {Facts(TRUE, tags, "main") : tags \in TagLists} \cup {Facts(FALSE, <<>>, "")}
    /\ branch \in {"main", "develop"}
    /\ call = Idle
    /\ text = ""
    /\ schema = Idle

\* flow(tag_version=...), in the working directory
FlowIn ==
    /\ call = Idle
    /\ \E tag_version \in TagDefaults :
       \E outcome \in {flow_in([zerv EXCEPT !.head = IF zerv.repository THEN branch ELSE ""],
                               [FlowDefaults EXCEPT !["tag_version"] = tag_version])} :
          call' = [op |-> "flow_in", tag_version |-> tag_version,
                   raised |-> outcome.raised, value |-> outcome.value,
                   process |-> outcome.process]
    /\ UNCHANGED <<zerv, text, schema, branch>>

NextResolve == FlowIn

SpecResolve == InitResolve /\ [][NextResolve]_vars

(***************************************************************************)
(* C11                                                                     *)
(***************************************************************************)
\* C11: with no reachable tag that parses, flow still yields a version, built
\* from the caller's default or the epoch-zero base, and reports NoTagFound as a
\* condition, not an error; outside a repository it ends in NoRepository and
\* yields no version.
C11_NoTagIsNotFatalNoRepositoryIs ==
    call.op = "flow_in" =>
        /\ (zerv.repository /\ \A i \in 1..Len(zerv.tags) : ~parse(zerv.tags[i]).ok)
              => /\ ~call.raised
                 /\ call.process.returncode = 0
                 /\ call.process.condition = "NoTagFound"
                 /\ call.tag_version = PyNone => call.value = "0.0.0"
                 /\ call.tag_version = PyStr("v0.9.0") => call.value = "0.9.0"
        /\ (zerv.repository /\ \E i \in 1..Len(zerv.tags) : parse(zerv.tags[i]).ok)
              => /\ ~call.raised
                 /\ call.process.condition = ""
        /\ ~zerv.repository
              => /\ call.raised
                 /\ call.process.returncode # 0
                 /\ call.process.stdout = ""
                 /\ call.value = "zerv command failed: NoRepository"

\* Tags none of which parses, and the version of the caller's default.
C11_Witness ==
    /\ call.op = "flow_in"
    /\ zerv.repository
    /\ zerv.tags = <<"nightly", "latest">>
    /\ call.tag_version = PyStr("v0.9.0")
    /\ call.process.condition = "NoTagFound"
    /\ call.value = "0.9.0"

(***************************************************************************)
(* The template output: version(output_template=...) on the sample's vars  *)
(* under schemas with and without the context fields, and                  *)
(* render(version, output_template=...).                                   *)
(***************************************************************************)
TemplateSchemas ==
    {SampleSchema,
     Schema(<<"Major", "Minor", "Patch">>, <<>>, <<>>, <<"Major", "Minor", "Patch">>),
     Schema(<<"Major", "Minor">>, <<"Post">>, <<"Distance">>,
            <<"Core", "ExtraCore", "Build">>)}

\* The placeholders tried: the name, the field it is, its text in the sample.
FieldCases ==
    {<<"major", "Major", "1">>, <<"minor", "Minor", "2">>, <<"patch", "Patch", "3">>,
     <<"distance", "Distance", "5">>,
     <<"bumped_branch", "BumpedBranch", "feature/test">>,
     <<"dev", "Dev", "">>, <<"foo", "Foo", "">>}

Before == {"", "v", "{v}-"}

After == {"", ".x", "-{y}-{{major}}"}

Template(lead, name, trail) == lead \o "{{" \o name \o "}}" \o trail

Templates ==
    {Template(lead, case[1], trail) : lead \in Before, case \in FieldCases, trail \in After}
    \cup {"v{{major}}", "{{major}}.{{minor}}", "{version}", "{{ major }}", "plain"}

InitTemplate ==
    /\ zerv \in {[vars |-> SampleVars, order |-> StandardOrder, schema |-> s] :
                   s \in TemplateSchemas}
    /\ text = "1.2.3"
    /\ call = Idle
    /\ schema = Idle
    /\ branch = Idle

\* version(output_template=...)
VersionTemplate ==
    /\ call = Idle
    /\ \E t \in Templates :
       \E outcome \in {_run_zerv_command(
                          Environment,
                          version_args([VersionDefaults
                                           EXCEPT !["output_template"] = PyStr(t)]))} :
          call' = [op |-> "version", template |-> t, active |-> zerv.schema,
                   raised |-> outcome.raised, value |-> outcome.value,
                   stdout |-> outcome.process.stdout]
    /\ UNCHANGED <<zerv, text, schema, branch>>

\* render(text, output_template=...)
RenderTemplate ==
    /\ call = Idle
    /\ \E t \in Templates :
       \E outcome \in {render_with(text, PyNone, PyStr(t), PyNone)} :
          call' = [op |-> "render", template |-> t, active |-> VersionSchema,
                   raised |-> outcome.raised, value |-> outcome.value,
                   stdout |-> outcome.process.stdout]
    /\ UNCHANGED <<zerv, text, schema, branch>>

NextTemplate == VersionTemplate \/ RenderTemplate

SpecTemplate == InitTemplate /\ [][NextTemplate]_vars

(***************************************************************************)
(* C12                                                                     *)
(***************************************************************************)
Active(field) == field \in Elements(call.active.core \o call.active.extra_core \o call.active.build)

Missing ==
    /\ call.raised
    /\ call.value = "zerv command failed: SchemaFieldMissing"
    /\ call.stdout = ""

Prefixes == {"", "v", "release-", "V.", " v", "v ", "1"}

\* The keyword arguments that choose the output: a format, or a template.
OutputChoices ==
    {[VersionDefaults EXCEPT !["output_format"] = PyStr(f)] : f \in OutputFormats}
    \cup {VersionDefaults,
          [VersionDefaults EXCEPT !["output_template"] = PyStr("{{major}}.{{minor}}")]}

InitPrefix ==
    /\ zerv \in {[vars |-> m, order |-> StandardOrder, schema |-> SampleSchema] :
                   m \in InputModels \cup {SampleVars}}
    /\ text \in {"1.2.3", "1.2.3rc3"}
    /\ call = Idle
    /\ schema = Idle
    /\ branch = Idle

\* version(output_format=... or output_template=..., output_prefix=...)
VersionPrefix ==
    /\ call = Idle
    /\ \E kwargs \in OutputChoices, p \in Prefixes :
       \E outcome \in {_run_zerv_command(
                          Environment,
                          version_args([kwargs EXCEPT !["output_prefix"] = PyStr(p)]))} :
          call' = [op |-> "version", prefix |-> p, kwargs |-> kwargs,
                   raised |-> outcome.raised, value |-> outcome.value,
                   stdout |-> outcome.process.stdout]
    /\ UNCHANGED <<zerv, text, schema, branch>>

\* render(text, output_format=... or output_template=..., output_prefix=...)
RenderPrefix ==
    /\ call = Idle
    /\ \E kwargs \in OutputChoices \ {[VersionDefaults EXCEPT !["output_format"] = PyStr("zerv")]},
          p \in Prefixes :
       \E outcome \in {render_with(text, kwargs["output_format"], kwargs["output_template"],
                                   PyStr(p))} :
          call' = [op |-> "render", prefix |-> p, kwargs |-> kwargs,
                   raised |-> outcome.raised, value |-> outcome.value,
                   stdout |-> outcome.process.stdout]
    /\ UNCHANGED <<zerv, text, schema, branch>>

NextPrefix == VersionPrefix \/ RenderPrefix

SpecPrefix == InitPrefix /\ [][NextPrefix]_vars

(***************************************************************************)
(* C13                                                                     *)
(***************************************************************************)
\* The same call without the prefix.
Unprefixed ==
    IF call.op = "version"
    THEN _run_zerv_command(Environment, version_args(call.kwargs))
    ELSE render_with(text, call.kwargs["output_format"], call.kwargs["output_template"],
                     PyNone)

\* C13: in every output format and for every prefix p, what a call with the
\* prefix returns is p followed by what the call without a prefix returns.
C13_PrefixIsPrependedVerbatim ==
    (call.op \in {"version", "render"} /\ "prefix" \in DOMAIN call) =>
        /\ ~call.raised
        /\ call.value = call.prefix \o Unprefixed.value

\* C13, of what the binary prints: the prefix, what it prints without a prefix.
C13_BinaryPrintsPrefixVerbatim ==
    (call.op \in {"version", "render"} /\ "prefix" \in DOMAIN call) =>
        /\ ~call.raised
        /\ call.stdout = call.prefix \o Unprefixed.process.stdout
        /\ call.value = strip(call.stdout)

\* A prefix that begins with a blank: the binary prints it, and the call returns
\* the version without the blank.
C13_Witness ==
    /\ call.op = "version"
    /\ "prefix" \in DOMAIN call
    /\ call.prefix = " v"
    /\ call.kwargs = VersionDefaults
    /\ zerv.vars = Tagged(1, 2, 3)
    /\ call.stdout = " v1.2.3\n"
    /\ call.value = "v1.2.3"

(***************************************************************************)
(* _run_zerv_command on every way the binary may end: its exit code, what  *)
(* it printed, what it wrote to standard error.                            *)
(***************************************************************************)
ReturnCodes == {0, 1, 2, 101, 255, 0 - 9}

\* What the binary printed, and that stripped.
Printed ==
    {<<"1.2.3\n", "1.2.3">>, <<"  1.2.3 \n\n", "1.2.3">>, <<"", "">>, <<"\t\n", "">>,
     <<"v1 2\r\n", "v1 2">>, <<"\n(\n  schema: ()\n)\n", "(\n  schema: ()\n)">>}

Errors == {"", "error: unexpected argument\n", " NoRepository "}

Process(returncode, stdout, stderr) ==
    [returncode |-> returncode, stdout |-> stdout, stderr |-> stderr]

InitRun ==
    /\ zerv \in {Process(rc, out[1], err) : rc \in ReturnCodes, out \in Printed, err \in Errors}
    /\ call = Idle
    /\ text = ""
    /\ schema = Idle
    /\ branch = Idle

\* _run_zerv_command(args), the binary ending as zerv says
Run ==
    /\ call = Idle
    /\ \E outcome \in {Completed(zerv)} :
          call' = [op |-> "run", raised |-> outcome.raised, value |-> outcome.value]
    /\ UNCHANGED <<zerv, text, schema, branch>>

NextRun == Run

SpecRun == InitRun /\ [][NextRun]_vars

(***************************************************************************)
(* C14                                                                     *)
(***************************************************************************)
\* C14: _run_zerv_command returns what the binary printed, stripped, exactly
\* when the exit code is 0, and for every other exit code raises RuntimeError
\* with the binary's standard error, whatever the binary printed.
C14_SuccessExactlyOnExitCodeZero ==
    call.op = "run" =>
        /\ call.raised <=> zerv.returncode # 0
        /\ zerv.returncode = 0 =>
              \A out \in Printed : zerv.stdout = out[1] => call.value = out[2]
        /\ zerv.returncode # 0 =>
              call.value = "zerv command failed: " \o zerv.stderr

\* A failed run that printed a version: the error is raised, the version is not
\* returned.
C14_Witness ==
    /\ call.op = "run"
    /\ zerv.returncode = 255
    /\ zerv.stdout = "1.2.3\n"
    /\ zerv.stderr = " NoRepository "
    /\ call.raised
    /\ call.value = "zerv command failed:  NoRepository "


(***************************************************************************)
(* The presets by name: version(schema=...) over the names of the binding  *)
(* and names near them.                                                    *)
(***************************************************************************)
FamilyWords == {"standard", "calver", "semver", "Standard", ""}

DepthWords ==
    {"", "-base", "-base-prerelease", "-base-prerelease-post",
     "-base-prerelease-post-dev", "-prerelease", "-none", "-base-post"}

ContextWords == {"", "-context", "-no-context", "-Context"}

PresetCandidates == {f \o d \o c : f \in FamilyWords, d \in DepthWords, c \in ContextWords}

InitPreset ==
    /\ zerv = [vars |-> SampleVars, order |-> StandardOrder, schema |-> SampleSchema]
    /\ text \in PresetCandidates
    /\ call = Idle
    /\ schema = Idle
    /\ branch = Idle

\* version(schema=text)
VersionPreset ==
    /\ call = Idle
    /\ \E outcome \in {_run_zerv_command(
                          Environment,
                          version_args([VersionDefaults EXCEPT !["schema"] = PyStr(text)]))} :
          call' = [op |-> "version", preset |-> text, raised |-> outcome.raised,
                   value |-> outcome.value, resolved |-> outcome.process.schema]
    /\ UNCHANGED <<zerv, text, schema, branch>>

NextPreset == VersionPreset

SpecPreset == InitPreset /\ [][NextPreset]_vars

(***************************************************************************)
(* C15                                                                     *)
(***************************************************************************)
BuildContext == <<"BumpedBranch", "Distance", "BumpedCommitHashShort">>

\* The names made of a family, a depth and an optional context suffix.
DecomposedNames ==
    {f \o d \o c : f \in {"standard", "calver"},
                   d \in {"", "-base", "-base-prerelease", "-base-prerelease-post",
                          "-base-prerelease-post-dev"},
                   c \in {"", "-context"}}

\* The 22 names: the decomposed ones and the two no-context names.
ListedNames == DecomposedNames \cup {"standard-no-context", "calver-no-context"}

OneLine(t) == \A i \in 1..Len(t) : CharAt(t, i) # "\n"

WithoutV(t) == IF Len(t) > 0 /\ CharAt(t, 1) \in {"v", "V"} THEN SubSeq(t, 2, Len(t)) ELSE t

\* Where the tags begin: the first dash, the end of the text when there is none.
TagsStart(t) ==
    IF \E i \in 1..Len(t) : CharAt(t, i) = "-"
    THEN CHOOSE i \in 1..Len(t) :
            CharAt(t, i) = "-" /\ \A j \in 1..(i - 1) : CharAt(t, j) # "-"
    ELSE Len(t) + 1

\* Words of the class separated by single separators, at least so many of them.
Separated(t, sep, IsOf(_), atLeast) ==
    /\ Len(t) > 0
    /\ \A i \in 1..Len(t) : CharAt(t, i) = sep \/ IsOf(CharAt(t, i))
    /\ CharAt(t, 1) # sep
    /\ CharAt(t, Len(t)) # sep
    /\ \A i \in 1..(Len(t) - 1) : ~(CharAt(t, i) = sep /\ CharAt(t, i + 1) = sep)
    /\ Cardinality({i \in 1..Len(t) : CharAt(t, i) = sep}) + 1 >= atLeast

\* An optional v, so many dot-separated integers or more, optional dash-separated
\* alphanumeric tags.
PvpShape(t, atLeast) ==
    /\ Separated(SubSeq(WithoutV(t), 1, TagsStart(WithoutV(t)) - 1), ".", IsDigit, atLeast)
    /\ \/ TagsStart(WithoutV(t)) > Len(WithoutV(t))
       \/ Separated(SubSeq(WithoutV(t), TagsStart(WithoutV(t)) + 1, Len(WithoutV(t))),
                    "-", IsAlnum, 1)

\* C16: a string is valid PVP exactly when it is an optional v, one or more
\* dot-separated non-negative integers and optional trailing dash-separated
\* alphanumeric tags; a single integer such as 1 is valid PVP.
C16_PvpIsOneOrMoreIntegers ==
    call.op = "validate" /\ call.grammar = "pvp" /\ OneLine(text) =>
        (call.valid <=> PvpShape(text, 1))

\* The validator of the draft accepts exactly the shapes of two or more integers.
C16_PvpPatternNeedsTwoIntegers ==
    call.op = "validate" /\ call.grammar = "pvp" /\ OneLine(text) =>
        (call.valid <=> PvpShape(text, 2))

\* The first of the draft's PVP samples, a single integer, refused by is_valid_pvp.
C16_Witness ==
    /\ call.op = "validate"
    /\ call.grammar = "pvp"
    /\ text = pvp_versions[1]
    /\ text = "1"
    /\ ~call.valid

(***************************************************************************)
(* The draft's reading of a PEP 440 match: the groups the match captures,  *)
(* the first way the pattern succeeds, and the labels put through the      *)
(* alias tables.                                                           *)
(***************************************************************************)
\* dict.get(key, default)
Get(map, key, default) == IF key \in DOMAIN map THEN map[key] ELSE default

\* Where the release starts: after the v and the epoch that are there.
ReleaseStart(v) ==
    IF Release(v, Word(v, OneOrMore(v, OptionalV(v, {1}), IsDigit), "!")) # {}
    THEN Max(Word(v, OneOrMore(v, OptionalV(v, {1}), IsDigit), "!"))
    ELSE Max(OptionalV(v, {1}))

ReleaseEnd(v) == Max(Release(v, {ReleaseStart(v)}))

\* The text a label group captures at q: empty when no label of L is there.
LabelText(s, q, L) ==
    IF FirstLabel(s, q, L) = 0 THEN ""
    ELSE SubSeq(s, q, q + Len(L[FirstLabel(s, q, L)]) - 1)

\* (?P<pre_l>...) as captured
PreL(v) == LabelText(v, SkipSeparator(v, ReleaseEnd(v)), PreLabelOrder)

PostStart(v) == LabelAt(v, ReleaseEnd(v), PreLabelOrder).pos

\* (?P<post_l>...) as captured: nothing when the post release is -N.
PostL(v) ==
    IF HasWordAt(v, PostStart(v), "-") /\ DigitsEnd(v, PostStart(v) + 1) > PostStart(v) + 1
    THEN ""
    ELSE LabelText(v, SkipSeparator(v, PostStart(v)), PostLabelOrder)

\* slip: the label is looked up as it was captured.
NormalizedWithoutLower(table, label) ==
    IF label = "" THEN "" ELSE Get(table, label, label)

\* table.get(label.lower(), label) of a captured label
Normalized(table, label) ==
    IF label = "" THEN "" ELSE Get(table, LowerStr(label), label)

\* The labels of the components test_versions builds for one version.
Components(v) ==
    IF ~is_valid_pep440(v)
    THEN [valid |-> FALSE, pre_l |-> "", post_l |-> "", pre |-> "", post |-> ""]
    ELSE [valid |-> TRUE, pre_l |-> PreL(v), post_l |-> PostL(v),
          pre |-> Normalized(pep440_pre_map, PreL(v)),
          post |-> Normalized(pep440_post_map, PostL(v))]

PreSpellings ==
    {"alpha", "ALPHA", "Alpha", "a", "A", "beta", "BETA", "bEtA", "b", "B",
     "preview", "PREVIEW", "Preview", "pre", "PRE", "pRe", "c", "C", "rc", "RC", "Rc",
     "prev" \o DotlessI \o "ew"}

PostSpellings ==
    {"post", "POST", "Post", "rev", "REV", "reV", "r", "R",
     "po" \o LongS \o "t", "PO" \o LongS \o "T"}

Separators == {"", ".", "-", "_"}

LabelNumbers == {"", "1", "12"}

LabelledVersions ==
    {"1.0" \o sep \o l \o n : sep \in Separators, l \in PreSpellings \cup PostSpellings,
                              n \in LabelNumbers}
    \cup {"1.0rc1.Post2", "v2!1.2.3-ALPHA.1_REV_3.dev4", "1.0-1", "1.0", "x1.0a1"}
    \cup Elements(pep_versions)

InitNormalize ==
    /\ text \in LabelledVersions
    /\ call = Idle
    /\ zerv = Idle
    /\ schema = Idle
    /\ branch = Idle

\* One round of test_versions' loop, with the PEP 440 validator and regex.
TestVersion ==
    /\ call = Idle
    /\ \E components \in {Components(text)} :
          call' = [op |-> "test_versions", valid |-> components.valid,
                   pre_l |-> components.pre_l, post_l |-> components.post_l,
                   pre |-> components.pre, post |-> components.post]
    /\ UNCHANGED <<zerv, text, schema, branch>>

NextNormalize == TestVersion

SpecNormalize == InitNormalize /\ [][NextNormalize]_vars

(***************************************************************************)
(* C17                                                                     *)
(***************************************************************************)
\* C17: every pre-release spelling the pattern accepts, in any letter case, is
\* normalized through the alias table to one of a, b, rc, and every post-release
\* spelling to post; none is left in its input form.
C17_EverySpellingIsNormalized ==
    call.op = "test_versions" /\ call.valid =>
        /\ call.pre_l # "" => call.pre \in {"a", "b", "rc"}
        /\ call.post_l # "" => call.post = "post"

Ascii(s) == \A i \in 1..Len(s) : CharAt(s, i) \notin {LongS, DotlessI}

\* The spellings written with the 52 letters are normalized, each to the entry
\* of its lower-case form.
C17_AsciiSpellingsAreNormalized ==
    call.op = "test_versions" /\ call.valid =>
        /\ call.pre_l # "" /\ Ascii(call.pre_l) =>
              /\ call.pre \in {"a", "b", "rc"}
              /\ \E i \in 1..Len(PreLabelOrder) :
                    /\ LowerStr(call.pre_l) = PreLabelOrder[i]
                    /\ call.pre = pep440_pre_map[PreLabelOrder[i]]
        /\ call.post_l # "" /\ Ascii(call.post_l) => call.post = "post"

\* post spelled with a long s: accepted by the pattern and left as it was.
C17_Witness ==
    /\ call.op = "test_versions"
    /\ text = "1.0po" \o LongS \o "t1"
    /\ call.valid
    /\ call.post_l = "po" \o LongS \o "t"
    /\ call.post = call.post_l
    /\ call.post # "post"

(***************************************************************************)
(* _extend_args on its own: lists to start from, and pairs of a flag and   *)
(* a value of each kind.                                                   *)
(***************************************************************************)
MaxPairs == 2

PairFlags == {"--foo", "--bar"}

PairValues ==
    {PyNone, PyBool(TRUE), PyBool(FALSE), PyInt(0), PyInt(7), PyStr(""), PyStr("value")}

InitialArgs == {<<>>, <<"base">>, <<"cmd">>, <<"check", "1.2.3">>}

\* The lists of the two tests.
test_extend_args_basic ==
    <<Flag("--foo", PyStr("value")), Flag("--bar", PyNone), Flag("--baz", PyBool(TRUE)),
      Flag("--qux", PyBool(FALSE))>>

test_extend_args_returns_list_for_chaining == <<Flag("--opt", PyStr("val"))>>

FlagLists ==
    UNION {[1..n -> {Flag(f, v) : f \in PairFlags, v \in PairValues}] : n \in 0..MaxPairs}
    \cup {test_extend_args_basic, test_extend_args_returns_list_for_chaining}

InitExtend ==
    /\ zerv \in InitialArgs
    /\ text = ""
    /\ call = Idle
    /\ schema = Idle
    /\ branch = Idle

\* _extend_args(args, flags)
ExtendArgs ==
    /\ call = Idle
    /\ \E flags \in FlagLists :
          call' = [op |-> "_extend_args", flags |-> flags,
                   result |-> _extend_args(zerv, flags)]
    /\ UNCHANGED <<zerv, text, schema, branch>>

NextExtend == ExtendArgs

SpecExtend == InitExtend /\ [][NextExtend]_vars

(***************************************************************************)
(* C18                                                                     *)
(***************************************************************************)
\* What one pair adds.
Added(pair) ==
    CASE pair.value = PyNone \/ pair.value = PyBool(FALSE) -> <<>>
      [] pair.value = PyBool(TRUE) -> <<pair.flag>>
      [] pair.value.t = "int" -> <<pair.flag, IntToStr(pair.value.i)>>
      [] pair.value.t = "str" -> <<pair.flag, pair.value.s>>

\* Where in the result the part of the i-th pair begins, after the initial list.
Offset(flags, i) ==
    Cardinality({j \in 1..(i - 1) : Len(Added(flags[j])) = 1})
    + 2 * Cardinality({j \in 1..(i - 1) : Len(Added(flags[j])) = 2})

\* C18: _extend_args returns the initial elements as a prefix, followed for each
\* pair in order by nothing when the value is None or False, by the flag alone
\* when it is True, and by the flag and str(value) for every other value, the
\* integer 0 and the empty string among them.
C18_ExtendArgsAppendsPerPair ==
    call.op = "_extend_args" =>
        /\ Len(call.result) = Len(zerv) + Offset(call.flags, Len(call.flags) + 1)
        /\ SubSeq(call.result, 1, Len(zerv)) = zerv
        /\ \A i \in 1..Len(call.flags) :
              SubSeq(call.result, Len(zerv) + Offset(call.flags, i) + 1,
                     Len(zerv) + Offset(call.flags, i + 1)) = Added(call.flags[i])
        /\ zerv = <<"base">> /\ call.flags = test_extend_args_basic
              => call.result = <<"base", "--foo", "value", "--baz">>
        /\ zerv = <<"cmd">> /\ call.flags = test_extend_args_returns_list_for_chaining
              => call.result = <<"cmd", "--opt", "val">>

\* A list extended by the integer 0 and by the empty string, both passed on.
C18_Witness ==
    /\ call.op = "_extend_args"
    /\ zerv = <<"base">>
    /\ call.flags = <<Flag("--foo", PyInt(0)), Flag("--bar", PyStr(""))>>
    /\ call.result = <<"base", "--foo", "0", "--bar", "">>

(***************************************************************************)
(* The bakefile: the version of the project, kept in pyproject.toml and in *)
(* Cargo.toml.                                                             *)
(***************************************************************************)
Returned(value) == [raised |-> "", value |-> value]

Raised(kind, message) == [raised |-> kind, value |-> message]

Mismatch(pyproject_raw, pyproject_semver, cargo_raw, cargo_semver) ==
    "Version mismatch: pyproject.toml=" \o pyproject_raw \o " (" \o pyproject_semver
    \o "), Cargo.toml=" \o cargo_raw \o " (" \o cargo_semver \o ")"

Compared(cargo_raw, pyproject_raw, pyproject_semver, cargo_semver) ==
    IF pyproject_semver.raised THEN Raised("RuntimeError", pyproject_semver.value)
    ELSE IF cargo_semver.raised THEN Raised("RuntimeError", cargo_semver.value)
    ELSE IF pyproject_semver.value # cargo_semver.value
    THEN Raised("ValueError",
                Mismatch(pyproject_raw, pyproject_semver.value, cargo_raw, cargo_semver.value))
    ELSE Returned(cargo_raw)

\* slip: the versions are compared as they are written in the files.
VersionComparesRaw(cargo_raw, pyproject_raw) ==
    Compared(cargo_raw, pyproject_raw,
             [raised |-> render(pyproject_raw, PyStr("semver")).raised,
              value |-> pyproject_raw],
             [raised |-> render(cargo_raw, PyStr("semver")).raised, value |-> cargo_raw])

\* MyBakebook._version, of what the two files hold
_version(cargo_raw, pyproject_raw) ==
    Compared(cargo_raw, pyproject_raw, render(pyproject_raw, PyStr("semver")),
             render(cargo_raw, PyStr("semver")))

FileVersions ==
    {"1.2.3", "v1.2.3", "1.2.3a1", "1.2.3-alpha.1", "1.2.3rc2", "1.2.3-rc.2",
     "1.2.3.post1", "1.2.3-post.1", "1.2.4", "0.1.0", "not-a-version", ""}

InitBake ==
    /\ zerv \in [cargo : FileVersions, pyproject : FileVersions]
    /\ text = ""
    /\ call = Idle
    /\ schema = Idle
    /\ branch = Idle

\* self._version
ReadVersion ==
    /\ call = Idle
    /\ \E outcome \in {_version(zerv.cargo, zerv.pyproject)} :
          call' = [op |-> "_version", raised |-> outcome.raised, value |-> outcome.value]
    /\ UNCHANGED <<zerv, text, schema, branch>>

NextBake == ReadVersion

SpecBake == InitBake /\ [][NextBake]_vars

(***************************************************************************)
(* C19                                                                     *)
(***************************************************************************)
Renders(version) == ~render(version, PyStr("semver")).raised

SemVerOf(version) == render(version, PyStr("semver")).value

\* C19: reading _version returns the version of Cargo.toml exactly when the
\* versions of pyproject.toml and Cargo.toml render to the same SemVer string,
\* and raises the version-mismatch ValueError whenever the two renderings
\* differ; no version is returned while the two files disagree.
C19_VersionReturnedOnlyWhenFilesAgree ==
    call.op = "_version" =>
        /\ call.raised = "" <=>
              /\ Renders(zerv.pyproject)
              /\ Renders(zerv.cargo)
              /\ SemVerOf(zerv.pyproject) = SemVerOf(zerv.cargo)
        /\ call.raised = "" => call.value = zerv.cargo
        /\ /\ Renders(zerv.pyproject)
           /\ Renders(zerv.cargo)
           /\ SemVerOf(zerv.pyproject) # SemVerOf(zerv.cargo)
           => /\ call.raised = "ValueError"
              /\ StartsWith(call.value, "Version mismatch: ")
        /\ zerv = [cargo |-> "1.2.4", pyproject |-> "1.2.3"]
              => call.value = "Version mismatch: pyproject.toml=1.2.3 (1.2.3), "
                              \o "Cargo.toml=1.2.4 (1.2.4)"
        /\ zerv = [cargo |-> "1.2.3-rc.2", pyproject |-> "1.2.3rc2"]
              => call.raised = "" /\ call.value = "1.2.3-rc.2"

\* The files hold one version in two dialects: the one of Cargo.toml is returned.
C19_Witness ==
    /\ call.op = "_version"
    /\ zerv = [cargo |-> "1.2.3-alpha.1", pyproject |-> "1.2.3a1"]
    /\ call.raised = ""
    /\ call.value = "1.2.3-alpha.1"

(***************************************************************************)
(* The lists of the binding.  A Python list is an object: heap holds the   *)
(* lists made so far, a reference is a position in it.  A list display     *)
(* makes a new list, _extend_args appends to the list it is given and      *)
(* returns that list, and the list is what the binary is started with.     *)
(***************************************************************************)
MaxCalls == 2

\* slip: the initial list is made once and kept, a module-level constant.
ListKeptBetweenCalls(heap, elements) ==
    IF \E r \in 1..Len(heap) : heap[r][1] = elements[1]
    THEN [heap |-> heap, ref |-> CHOOSE r \in 1..Len(heap) : heap[r][1] = elements[1]]
    ELSE [heap |-> Append(heap, elements), ref |-> Len(heap) + 1]

\* ["version"], ["flow"], ["check", version]: a list display
ListDisplay(heap, elements) == [heap |-> Append(heap, elements), ref |-> Len(heap) + 1]

\* _extend_args(args=<the list>, flags=flags): the list itself, extended
ExtendedInPlace(made, flags) ==
    [heap |-> [made.heap EXCEPT ![made.ref] = _extend_args(@, flags)], ref |-> made.ref]

\* The flags of check()
CheckFlags(format, verbose) == <<Flag("--format", format), Flag("-v", verbose)>>

version_list(heap, kwargs) ==
    ExtendedInPlace(ListDisplay(heap, <<"version">>), VersionFlags(kwargs))

flow_list(heap, kwargs) == ExtendedInPlace(ListDisplay(heap, <<"flow">>), FlowFlags(kwargs))

check_list(heap, version, format, verbose) ==
    ExtendedInPlace(ListDisplay(heap, <<"check", version>>), CheckFlags(format, verbose))

VersionCalls ==
    {VersionDefaults,
     [VersionDefaults EXCEPT !["output_prefix"] = PyStr("v")],
     [VersionDefaults EXCEPT !["output_format"] = PyStr("pep440"), !["dirty"] = PyBool(TRUE)],
     [VersionDefaults EXCEPT !["bump_major"] = PyInt(0), !["dirty"] = PyBool(FALSE)]}

FlowCalls ==
    {FlowDefaults,
     [FlowDefaults EXCEPT !["pre_release_label"] = PyStr("beta")],
     [FlowDefaults EXCEPT !["output_prefix"] = PyStr("v"), !["verbose"] = PyBool(TRUE)]}

CheckFormat == {"semver", "pep440"}

InitCalls ==
    /\ zerv = [heap |-> <<>>, calls |-> <<>>]
    /\ text = ""
    /\ call = Idle
    /\ schema = Idle
    /\ branch = Idle

\* What a call leaves: the lists, the call among the calls made, and the list the
\* binary was started with.
Calling(op, start, flags, made) ==
    /\ zerv' = [heap |-> made.heap,
                calls |-> Append(zerv.calls, [op |-> op, start |-> start, flags |-> flags,
                                              ref |-> made.ref])]
    /\ call' = [op |-> op, start |-> start, flags |-> flags,
                args |-> made.heap[made.ref]]
    /\ UNCHANGED <<text, schema, branch>>

\* version(**kwargs)
CallVersion ==
    /\ Len(zerv.calls) < MaxCalls
    /\ \E kwargs \in VersionCalls :
          Calling("version", <<"version">>, VersionFlags(kwargs),
                  version_list(zerv.heap, kwargs))

\* flow(**kwargs)
CallFlow ==
    /\ Len(zerv.calls) < MaxCalls
    /\ \E kwargs \in FlowCalls :
          Calling("flow", <<"flow">>, FlowFlags(kwargs), flow_list(zerv.heap, kwargs))

\* check(version, format=..., verbose=...)
CallCheck ==
    /\ Len(zerv.calls) < MaxCalls
    /\ \E version \in {"1.0.0", "1.2.3rc1"},
          format \in {PyNone} \cup {PyStr(f) : f \in CheckFormat},
          verbose \in {PyNone, PyBool(TRUE)} :
          Calling("check", <<"check", version>>, CheckFlags(format, verbose),
                  check_list(zerv.heap, version, format, verbose))

NextCalls == CallVersion \/ CallFlow \/ CallCheck

SpecCalls == InitCalls /\ [][NextCalls]_vars

(***************************************************************************)
(* C20                                                                     *)
(***************************************************************************)
\* The flags a call was given a value for.
OwnFlags(flags) ==
    {flags[i].flag : i \in {j \in 1..Len(flags) :
                               flags[j].value # PyNone /\ flags[j].value # PyBool(FALSE)}}

\* C20: the argument list version(), flow() or check() hands to the binary
\* depends only on the arguments of that call: it is the subcommand (and, for
\* check, the version) extended by the call's own flags, and after any sequence
\* of calls no flag of an earlier call appears in the list of a later one, nor
\* has the list of an earlier call changed.
C20_ArgumentsAreTheCallsOwn ==
    "args" \in DOMAIN call =>
        /\ call.args = _extend_args(call.start, call.flags)
        /\ \A i \in 1..Len(zerv.calls) :
              zerv.heap[zerv.calls[i].ref] =
                  _extend_args(zerv.calls[i].start, zerv.calls[i].flags)
        /\ \A i \in 1..(Len(zerv.calls) - 1) :
              \A flag \in OwnFlags(zerv.calls[i].flags) \ OwnFlags(call.flags) :
                 flag \notin Elements(SubSeq(call.args, Len(call.start) + 1, Len(call.args)))

\* version(output_prefix="v") and then version(): the second list holds the
\* subcommand alone, the first still holds its flag.
C20_Witness ==
    /\ "args" \in DOMAIN call
    /\ Len(zerv.calls) = 2
    /\ zerv.calls[1].op = "version"
    /\ zerv.heap[zerv.calls[1].ref] = <<"version", "--output-prefix", "v">>
    /\ call.op = "version"
    /\ call.args = <<"version">>
    /\ zerv.calls[2].ref # zerv.calls[1].ref

(***************************************************************************)
(* C21                                                                     *)
(***************************************************************************)
\* The whole of the text is a PEP 440 version: the pattern can end at its end.
WholePep440(t) == (Len(t) + 1) \in PEP440_PATTERN(t)

\* C21: is_valid_pep440 accepts a string only when the entire string matches
\* the PEP 440 grammar; a valid version followed by characters the grammar does
\* not allow there is rejected.
C21_Pep440MatchesTheWholeString ==
    call.op = "validate" /\ call.grammar = "pep440" =>
        (call.valid => WholePep440(text))

\* The validator of the draft accepts exactly the texts that begin with a
\* PEP 440 version, whatever follows it.
C21_Pep440MatchesABeginning ==
    call.op = "validate" /\ call.grammar = "pep440" =>
        (call.valid <=> \E k \in 1..Len(text) : WholePep440(SubSeq(text, 1, k)))

\* 1.2.x, a release followed by what the grammar has no place for, accepted.
C21_Witness ==
    /\ call.op = "validate"
    /\ call.grammar = "pep440"
    /\ text = "1.2.x"
    /\ ~WholePep440(text)
    /\ call.valid
====
